---- MODULE Spec2Model ----
(***************************************************************************)
(* Model of the Mining Ops Bitaxe discovery / polling engine:              *)
(*   discovery_bitaxe.py    BitaxeDiscovery (subnet scanner, prober)       *)
(*   coordinator_bitaxe.py  BitaxeCoordinator (polling, reconciliation)    *)
(*   sensor.py              entity creation and the entities' reads        *)
(*   config_flow.py         the config flow of a Bitaxe entry              *)
(*   __init__.py            setup and unload of a config entry             *)
(*                                                                         *)
(* Eight specifications share the variables:                               *)
(*   Spec       the coordinator: polling cycles interleaved with the       *)
(*              reconciliation task; a scan is an awaited call whose       *)
(*              result is computed by discover from the probes' outcomes   *)
(*   SpecReconcile  the reconciliation task alone, cycle after cycle,      *)
(*              until the shutdown cancels it                              *)
(*   SpecSensors  the coordinator of one entry through one more            *)
(*              reconciliation cycle, for the sensor platform's callbacks  *)
(*   SpecEntry  one config entry from setup to the return of the unload    *)
(*   SpecScan   one scan of BitaxeDiscovery, probe by probe, with the      *)
(*              semaphore                                                  *)
(*   SpecScanCancel  the same scan, which its awaiter may cancel           *)
(*   SpecFetch  one call of _fetch_miner_data, request by request          *)
(*   SpecConfig one config flow, form by form                              *)
(***************************************************************************)
EXTENDS Integers, Sequences, FiniteSets, Bags, TLC

(***************************************************************************)
(* Bounds of the model                                                     *)
(***************************************************************************)
\* largest number of configured miners (CONF_MINERS) drawn by Init
MaxConfigured == 1
\* largest semaphore size drawn by the scanner's Init
MaxConcurrency == 2
\* polling cycles and reconciliation cycles a behaviour runs through
MaxPolls == 2
MaxScans == 2
\* reconciliation cycles SpecSensors runs through
MaxRescans == 3

(***************************************************************************)
(* Python values.  Every value carries its type tag, so that isinstance    *)
(* and truthiness are computed, not assumed.                               *)
(***************************************************************************)
None == [t |-> "None"]
PyDict(r) == [t |-> "dict", v |-> r]
PyStr(s) == [t |-> "str", v |-> s]
PyList(elems) == [t |-> "list", v |-> elems]
PyInt == [t |-> "int"]
InvalidJson == [t |-> "invalid"]
Pending == [t |-> "pending"]
EmptyDict == [k \in {} |-> 0]

Range(s) == {s[i] : i \in 1..Len(s)}
Min(a, b) == IF a < b THEN a ELSE b

\* {**a, **b}: the keys of b override those of a
DictMerge(a, b) == [k \in DOMAIN a \cup DOMAIN b |-> IF k \in DOMAIN b THEN b[k] ELSE a[k]]
\* d[key] = val
DictSet(d, key, val) == [k \in DOMAIN d \cup {key} |-> IF k = key THEN val ELSE d[k]]
\* bool(x) of a value a JSON body or a failed request can give
Truthy(x) ==
    IF x.t = "dict" THEN DOMAIN x.v # {}
    ELSE IF x.t = "list" THEN x.v # {}
    ELSE x.t \notin {"None"}
\* "name in data" is defined for a dict (its keys) and a list (its elements);
\* for a number or null it raises TypeError.  (JSON strings are not drawn.)
Container(data) == data.t \in {"dict", "list"}
PyIn(name, data) == IF data.t = "dict" THEN name \in DOMAIN data.v ELSE name \in data.v

(***************************************************************************)
(* Addresses: the four addresses of 10.0.0.0/30, as integers 0..3 inside   *)
(* ipaddress and as strings once str(ip) has been applied.                 *)
(***************************************************************************)
AddrInts == 0..3
AddrStr(n) == <<"10.0.0.0", "10.0.0.1", "10.0.0.2", "10.0.0.3">>[n + 1]
Addrs == {AddrStr(n) : n \in AddrInts}

Pow2(n) == IF n = 0 THEN 1 ELSE IF n = 1 THEN 2 ELSE 4

\* variant: every subnet string parses
SubnetMalformed_Never(sn) == FALSE
\* ipaddress.IPv4Network(subnet, strict=False) raises ValueError
SubnetMalformed(sn) == sn.prefixlen \notin 0..32
\* network address with the host bits masked off (strict=False)
NetworkAddress(sn) == sn.addr - (sn.addr % Pow2(32 - sn.prefixlen))
BroadcastAddress(sn) == NetworkAddress(sn) + Pow2(32 - sn.prefixlen) - 1
\* variant: every address of the network is a host
HostInts_All(sn) ==
    [i \in 1..(BroadcastAddress(sn) - NetworkAddress(sn) + 1) |-> NetworkAddress(sn) + i - 1]
\* list(network.hosts()), as integers, ascending
HostInts(sn) ==
    IF sn.prefixlen = 32 THEN <<NetworkAddress(sn)>>
    ELSE IF sn.prefixlen = 31 THEN <<NetworkAddress(sn), BroadcastAddress(sn)>>
    ELSE [i \in 1..(BroadcastAddress(sn) - NetworkAddress(sn) - 1) |-> NetworkAddress(sn) + i]
\* [str(ip) for ip in network.hosts()]
Hosts(sn) == [i \in 1..Len(HostInts(sn)) |-> AddrStr(HostInts(sn)[i])]

\* the subnets Init draws from: a /30, a /31 given by a host address, a /32
\* and a malformed one (prefix length 33)
Subnets ==
    { [addr |-> 0, prefixlen |-> 30], [addr |-> 1, prefixlen |-> 31],
      [addr |-> 2, prefixlen |-> 32], [addr |-> 0, prefixlen |-> 33] }

(***************************************************************************)
(* HTTP: what one GET can end in.                                          *)
(***************************************************************************)
HttpResponse(status, body) == [exc |-> "", status |-> status, body |-> body]
HttpRaise(exc) == [exc |-> exc, status |-> 0, body |-> None]
\* timeout and connection errors: the request failed at transport level
TransportFailure(o) == o.exc \in {"TimeoutError", "ClientError"}

InfoPlain == [deviceModel |-> "NerdQAxe", hashRate |-> 500]
InfoNoHashRate == [deviceModel |-> "NerdQAxe"]
InfoWithAvailable == [deviceModel |-> "NerdQAxe", hashRate |-> 500, available |-> FALSE]
InfoWithIp == [deviceModel |-> "NerdQAxe", hashRate |-> 500, ip |-> "192.168.4.1"]
InfoWithStats == [deviceModel |-> "NerdQAxe", hashRate |-> 500, stats |-> [uptime |-> 7]]
StatsPlain == [temp |-> 55]

HttpFailures ==
    { HttpRaise("TimeoutError"), HttpRaise("ClientError"), HttpRaise("Exception"),
      HttpResponse(404, None), HttpResponse(200, InvalidJson) }

\* one GET of an endpoint of a device: url = f"http://{ip}{endpoint}"
InfoRequest(ip) == SetToBag({[ip |-> ip, endpoint |-> "/api/system/info"]})
StatsRequest(ip) == SetToBag({[ip |-> ip, endpoint |-> "/api/system/metrics"]})
\* the request of one probe: the info endpoint of the probed address
ProbeRequest(ip) == InfoRequest(ip)
\* variant: the info request is repeated after the first attempt
FetchRequests_Retry(ip) == (InfoRequest(ip) (+) InfoRequest(ip)) (+) StatsRequest(ip)
\* the requests of one call of _fetch_miner_data: the info request, then the
\* stats request, whatever the info request ended in
FetchRequests(ip) == InfoRequest(ip) (+) StatsRequest(ip)

\* _fetch_api: the JSON of a 200 response, None for everything else
_fetch_api(o) ==
    IF o.exc = "TimeoutError" THEN None
    ELSE IF o.exc = "ClientError" THEN None
    ELSE IF o.exc # "" THEN None
    ELSE IF o.status = 200
         THEN IF o.body = InvalidJson THEN None ELSE o.body
         ELSE None

\* the dictionary _fetch_miner_data builds from a successful info request
CombineData(ip, info) == DictMerge([available |-> TRUE, ip |-> ip], info)

\* _fetch_miner_data(ip), given what the info and the stats request end in;
\* unpacking an info that is no mapping raises TypeError, caught by the
\* function's except clause
_fetch_miner_data(ip, info_http, stats_http) ==
    LET info == _fetch_api(info_http)
        stats == _fetch_api(stats_http)
    IN  IF info = None THEN None
        ELSE IF info.t # "dict" THEN None
        ELSE IF Truthy(stats)
             THEN PyDict(DictSet(CombineData(ip, info.v), "stats", stats.v))
             ELSE PyDict(CombineData(ip, info.v))

\* str(data) for a result that is no dict
StrOf(data) == IF data.t = "None" THEN "None" ELSE data.t

\* the value _async_update_data stores for one gathered result
DeviceState(data) ==
    IF data.t = "dict" THEN data.v ELSE [available |-> FALSE, error |-> StrOf(data)]

\* _probe_ip: the address for a 200 response whose decoded body passes
\* '"deviceModel" in data and "hashRate" in data'; a failed request, a body
\* that is no JSON and a TypeError of "in" all end in "return None"
_probe_ip(ip, o) ==
    IF o.exc # "" THEN None
    ELSE IF o.status = 200
         THEN IF o.body = InvalidJson THEN None
              ELSE IF ~Container(o.body) THEN None
              ELSE IF PyIn("deviceModel", o.body) /\ PyIn("hashRate", o.body)
                   THEN PyStr(ip)
                   ELSE None
         ELSE None

\* found_miners = [ip for ip in results if isinstance(ip, str)]
StrFilter(results) == SelectSeq(results, LAMBDA r : r.t = "str")


(***************************************************************************)
(* State                                                                   *)
(***************************************************************************)
VARIABLES
    \* the config entry
    entry_pc,           \* where async_setup_entry / async_unload_entry is
    device_type,        \* entry.data[CONF_DEVICE_TYPE]
    hass_data,          \* the entry ids hass.data[DOMAIN] has a coordinator for
    unload_ret,         \* what async_unload_entry returned, None before it has
    \* BitaxeCoordinator: configuration
    configured_miners,  \* self.configured_miners
    subnet,             \* self.subnet
    concurrency,        \* self.concurrency
    scan_interval,      \* self.scan_interval
    \* BitaxeCoordinator: state
    active_miners,      \* self.active_miners
    active_order,       \* the order in which iterating self.active_miners yields it
    miners,             \* self.miners, the published map
    scan_task,          \* where the _periodic_scan task is
    poll_pc,            \* where _async_update_data is
    tasks,              \* the addresses of the tasks list of the running cycle
    results,            \* what gather has collected for each task
    events,             \* the events the latest reconciliation cycle fired
    last_scan,          \* history: outcome of the latest reconciliation cycle
    polls,              \* history: polling cycles started
    scans,              \* history: reconciliation cycles started
    notified,           \* history: kind of the last notification fired per address
    sleeps,             \* history: calls of asyncio.sleep by the scan task
    \* BitaxeDiscovery: one scan
    scan_pc,            \* where discover_miners is
    sem,                \* free slots of self.sem
    probe_pc,           \* where each _probe_ip task is
    probe_result,       \* what each finished _probe_ip returned
    probe_http,         \* history: what each probed host answered
    found_miners,       \* the list discover returns
    \* one call of _fetch_miner_data
    fetch_pc, fetch_ip, fetch_info, fetch_stats, fetch_ret,
    \* history: the GET requests issued by the running polling cycle (Spec),
    \* by the scan (SpecScan) or by the fetch (SpecFetch), as a bag
    requests,
    \* the sensor platform: the addresses it has created entities for and the
    \* state each device's entities wrote at the last coordinator update
    created_miners, sensor_state, entities,
    \* one config flow: the step whose form is shown, the input last submitted
    \* to the Bitaxe configuration step, the errors of the shown form, and the
    \* flow's config_data, discovered_miners and created entry
    flow_step, flow_input, flow_errors, config_data, discovered_miners, flow_entry

entryVars == <<device_type, hass_data, unload_ret>>
coordVars ==
    <<entryVars, entry_pc, configured_miners, subnet, concurrency, scan_interval, active_miners,
      active_order, miners, scan_task, poll_pc, tasks, results, events,
      last_scan, polls, scans, notified, sleeps>>
scanVars == <<scan_pc, sem, probe_pc, probe_result, probe_http, found_miners>>
fetchVars == <<fetch_pc, fetch_ip, fetch_info, fetch_stats, fetch_ret>>
sensorVars == <<created_miners, sensor_state, entities>>
flowVars == <<flow_step, flow_input, flow_errors, config_data, discovered_miners, flow_entry>>
vars == <<coordVars, scanVars, fetchVars, requests, sensorVars, flowVars>>

(***************************************************************************)
(* Iteration order of a Python set.  CPython yields a set's elements in    *)
(* hash-slot order: adding an element puts it at some place among the      *)
(* others, discarding one leaves the others' relative order alone.         *)
(***************************************************************************)
Perms(S) == {s \in [1..Cardinality(S) -> S] : Range(s) = S}
IndexOf(s, x) == CHOOSE i \in 1..Len(s) : s[i] = x
KeepsOrder(old, new) ==
    \A a, b \in Range(old) \cap Range(new) :
        IndexOf(old, a) < IndexOf(old, b) => IndexOf(new, a) < IndexOf(new, b)

(***************************************************************************)
(* BitaxeCoordinator                                                       *)
(***************************************************************************)
\* history: no notification has been fired for any address
NeverNotified == [x \in Addrs |-> "none"]
NoPrev == [status |-> "none", A |-> {}, S |-> {}, events |-> {}]
NoScan == [status |-> "none", A |-> {}, S |-> {}, transport |-> FALSE, prev |-> NoPrev]
\* the addresses CONF_MINERS is drawn from: 10.0.0.0 is no host of the /30
\* and of the /32, 10.0.0.1 is a host of the /30 and of the /31
Configurable == {AddrStr(0), AddrStr(1)}

\* no config flow is running
FlowQuiet ==
    /\ flow_step = "unused" /\ flow_input = None /\ flow_errors = EmptyDict
    /\ config_data = EmptyDict /\ discovered_miners = <<>> /\ flow_entry = None

(***************************************************************************)
(* The sensor platform (sensor.py).  Its setup runs once the first refresh *)
(* has returned and calls async_add_miner_sensors; from then on the        *)
(* coordinator calls it, and the update handler of every entity, at the    *)
(* end of each refresh.                                                    *)
(***************************************************************************)
SensorQuiet == created_miners = {} /\ sensor_state = EmptyDict /\ entities = EmptyBag

\* a value a sensor reports
PyVal(v) == [t |-> "value", v |-> v]
\* data.get(key, default) of a device state
Get(data, key, default) == IF key \in DOMAIN data THEN data[key] ELSE default

\* variant: entity creation drops the addresses it has entities for
ActiveAfterSensors_Prune(active, created) == active \ created
\* coordinator.active_miners after async_add_miner_sensors, which iterates a
\* copy of it: list(coordinator.active_miners)
ActiveAfterSensors(active, created) == active

\* variant: an entity set for every listed address, created before or not
NewEntities_All(created, active) == active
\* async_add_miner_sensors: the addresses whose entities are appended to
\* new_entities and handed to async_add_entities
NewEntities(created, active) == {miner_ip \in active : miner_ip \notin created}

\* async_add_miner_sensors: created_miners after the call
async_add_miner_sensors(created, active) ==
    created \cup {miner_ip \in active : miner_ip \notin created}

\* variant: the rule of the NMMiner entities, which ignores the flag
available_EntryOnly(miner_ip, m) == miner_ip \in DOMAIN m
\* MiningOpsSensor.available of a Bitaxe entity
available(miner_ip, m) ==
    IF miner_ip \notin DOMAIN m THEN FALSE
    ELSE Get(m[miner_ip], "available", TRUE)

\* MiningOpsSensor.native_value of the hashrate entity of a Bitaxe
native_value(miner_ip, m) ==
    IF miner_ip \notin DOMAIN m THEN None
    ELSE IF ~Get(m[miner_ip], "available", TRUE) THEN None
    ELSE PyVal(Get(m[miner_ip], "hashRate", 0))

\* what the entities of every created device read and write on an update
WrittenStates(created, m) ==
    [miner_ip \in created |->
        [available |-> available(miner_ip, m), native_value |-> native_value(miner_ip, m)]]

ScanQuiet == /\ scan_pc = "unused" /\ sem = 0 /\ probe_pc = <<>> /\ probe_result = <<>>
             /\ probe_http = <<>> /\ found_miners = <<>>
FetchQuiet == /\ fetch_pc = "unused" /\ fetch_ip = "" /\ fetch_info = Pending
              /\ fetch_stats = Pending /\ fetch_ret = Pending

\* the scan intervals, in seconds: none, a short one, the default
ScanIntervals == {0, 1, 3600}
\* const.py
DEVICE_TYPE_NMMINER == "nmminer"
DEVICE_TYPE_BITAXE == "bitaxe"
\* entry.entry_id of the one config entry followed
EntryId == "entry_id"
\* no async_setup_entry has stored anything, no unload has returned
EntryQuiet == hass_data = {} /\ unload_ret = None
\* ClientTimeout(total=5) of one request of _fetch_api, in seconds
FetchTimeout == 5

\* the subnets the coordinator is configured with: two hosts, one host,
\* malformed
CoordSubnets == {sn \in Subnets : sn.prefixlen # 31}

\* async_setup_entry has built the coordinator (__init__) and is about to
\* await its first refresh: the state after construction, for each
\* configuration
Init ==
    /\ entry_pc = "setup"
    /\ device_type = DEVICE_TYPE_BITAXE
    /\ EntryQuiet
    /\ configured_miners \in {C \in SUBSET Configurable : Cardinality(C) <= MaxConfigured}
    /\ subnet \in CoordSubnets
    /\ concurrency \in {-1, 0, 1}
    /\ scan_interval \in ScanIntervals
    /\ active_miners = configured_miners
    /\ active_order \in Perms(configured_miners)
    /\ miners = EmptyDict
    /\ scan_task = "none"
    /\ poll_pc = "constructed"
    /\ tasks = <<>>
    /\ results = <<>>
    /\ events = {}
    /\ last_scan = NoScan
    /\ polls = 0
    /\ scans = 0
    /\ notified = NeverNotified
    /\ sleeps = 0
    /\ ScanQuiet
    /\ FetchQuiet
    /\ requests = EmptyBag
    /\ SensorQuiet
    /\ FlowQuiet

\* tasks = [self._fetch_miner_data(ip) for ip in self.active_miners]
StartGather ==
    /\ tasks' = active_order
    /\ results' = [i \in 1..Len(active_order) |-> Pending]
    /\ poll_pc' = "gathering"
    /\ polls' = polls + 1
    /\ requests' = EmptyBag

\* history: the calls of asyncio.sleep once the task has reached the given
\* position: the loop body starts with "await asyncio.sleep(...)"
SleepsAfter(task, n) == IF task = "sleeping" THEN n + 1 ELSE n

\* variant: the loop scans first and sleeps afterwards
ScanTaskFor_ScanFirst(interval) == IF interval > 0 THEN "scanning" ELSE "none"
\* variant: the task is created whatever the interval
ScanTaskFor_Always(interval) == "sleeping"
\* the task the first refresh creates for the given scan interval
ScanTaskFor(interval) == IF interval > 0 THEN "sleeping" ELSE "none"

\* async_config_entry_first_refresh, up to the first suspension of the refresh
async_config_entry_first_refresh ==
    /\ device_type = DEVICE_TYPE_BITAXE
    /\ poll_pc = "constructed"
    /\ scan_task' = ScanTaskFor(scan_interval)
    /\ sleeps' = SleepsAfter(scan_task', sleeps)
    /\ StartGather
    /\ UNCHANGED <<entry_pc, configured_miners, subnet, concurrency, scan_interval,
                   active_miners, active_order, miners, events, last_scan, scans>>
    /\ UNCHANGED <<notified, scanVars, fetchVars, sensorVars, flowVars, entryVars>>

\* variant: the task created for the entry is cancelled when setup fails
TaskAfterFailedSetup_Cancelled(task) == IF task = "none" THEN "none" ELSE "done"
\* the scan task once async_setup_entry has caught the exception: nothing
\* cancels it
TaskAfterFailedSetup(task) == task

\* async_setup_entry when _register_devices raises in the first refresh: the
\* scan task has been created (lines 73-74), the exception reaches the
\* except clause of async_setup_entry, which returns False; no polling cycle
\* starts and nothing is stored
async_setup_entry_raises ==
    /\ device_type = DEVICE_TYPE_BITAXE
    /\ poll_pc = "constructed"
    /\ entry_pc = "setup"
    /\ scan_task' = TaskAfterFailedSetup(ScanTaskFor(scan_interval))
    /\ sleeps' = SleepsAfter(scan_task', sleeps)
    /\ entry_pc' = "failed"
    /\ poll_pc' = "failed"
    /\ UNCHANGED <<configured_miners, subnet, concurrency, scan_interval,
                   active_miners, active_order, miners, tasks, results, events,
                   last_scan, polls, scans>>
    /\ UNCHANGED <<notified, scanVars, fetchVars, requests, sensorVars, flowVars, entryVars>>

\* async_setup_entry for a device type that is neither nmminer nor bitaxe:
\* "Unknown device type", return False; no coordinator is built
async_setup_entry_unknown ==
    /\ device_type \notin {DEVICE_TYPE_NMMINER, DEVICE_TYPE_BITAXE}
    /\ entry_pc = "setup"
    /\ entry_pc' = "failed"
    /\ poll_pc' = "unused"
    /\ UNCHANGED <<configured_miners, subnet, concurrency, scan_interval,
                   active_miners, active_order, miners, scan_task, tasks, results,
                   events, last_scan, polls, scans>>
    /\ UNCHANGED <<notified, sleeps, scanVars, fetchVars, requests, sensorVars, flowVars, entryVars>>

\* a later tick of the update coordinator: _async_update_data up to its await
PollStart ==
    /\ poll_pc = "idle"
    /\ polls < MaxPolls
    /\ StartGather
    /\ UNCHANGED <<entry_pc, configured_miners, subnet, concurrency, scan_interval,
                   active_miners, active_order, miners, scan_task, events, last_scan,
                   scans>>
    /\ UNCHANGED <<notified, sleeps, scanVars, fetchVars, sensorVars, flowVars, entryVars>>

\* what the devices polled by the coordinator answer to the info and to the
\* stats request: both, the stats only, or nothing (SpecFetch has the other
\* answers)
PolledAnswers ==
    { <<HttpResponse(200, PyDict(InfoPlain)), HttpResponse(200, PyDict(StatsPlain))>>,
      <<HttpRaise("TimeoutError"), HttpResponse(200, PyDict(StatsPlain))>>,
      <<HttpRaise("TimeoutError"), HttpRaise("TimeoutError")>> }

\* one task of the gather finishes
FetchReturn(i) ==
    /\ poll_pc = "gathering"
    /\ i \in 1..Len(tasks)
    /\ results[i] = Pending
    /\ \E a \in PolledAnswers :
          results' = [results EXCEPT ![i] = _fetch_miner_data(tasks[i], a[1], a[2])]
    /\ UNCHANGED <<entry_pc, configured_miners, subnet, concurrency, scan_interval,
                   active_miners, active_order, miners, scan_task, poll_pc, tasks,
                   events, last_scan, polls, scans>>
    /\ requests' = requests (+) FetchRequests(tasks[i])
    /\ UNCHANGED <<notified, sleeps, scanVars, fetchVars, sensorVars, flowVars, entryVars>>

\* the addresses the publish loop pairs with the gathered results:
\* zip(self.active_miners, results)
ZipKeys(order, res) == [i \in 1..Min(Len(order), Len(res)) |-> order[i]]

\* for ip, data in zip(...): self.miners[ip] = ...
PublishInto(m, keys, res) ==
    [k \in DOMAIN m \cup Range(keys) |->
        IF k \in Range(keys) THEN DeviceState(res[IndexOf(keys, k)]) ELSE m[k]]

\* the gather of the polling cycle has every result: _async_update_data is
\* ready to resume
PublishReady == poll_pc = "gathering" /\ \A i \in 1..Len(results) : results[i] # Pending

\* async_setup_entry once its await of the first refresh has returned: the
\* coordinator is stored in hass.data and the entry is forwarded to the
\* sensor platform; later refreshes find the entry as it is
EntryAfterRefresh(pc) == IF pc = "setup" THEN "loaded" ELSE pc

\* hass.data[DOMAIN] after the refresh has returned: async_setup_entry, past
\* its try block, stores the coordinator under entry.entry_id; a later
\* refresh stores nothing
StoredAfterRefresh(pc, data) == IF pc = "setup" THEN data \cup {EntryId} ELSE data

\* _async_update_data after the gather: update self.miners, return it; the
\* caller awaiting the refresh resumes with it, and the sensor platform adds
\* entities and the entities read the map
PollPublish ==
    /\ PublishReady
    /\ miners' = PublishInto(miners, ZipKeys(active_order, results), results)
    /\ poll_pc' = "idle"
    /\ tasks' = <<>>
    /\ results' = <<>>
    /\ entry_pc' = EntryAfterRefresh(entry_pc)
    /\ hass_data' = StoredAfterRefresh(entry_pc, hass_data)
    /\ active_miners' = ActiveAfterSensors(active_miners, created_miners)
    /\ UNCHANGED <<configured_miners, subnet, concurrency, scan_interval,
                   active_order, scan_task, events, last_scan, polls, scans>>
    /\ requests' = EmptyBag
    /\ created_miners' = async_add_miner_sensors(created_miners, active_miners)
    /\ sensor_state' = WrittenStates(created_miners', miners')
    /\ entities' = entities (+) SetToBag(NewEntities(created_miners, active_miners))
    /\ UNCHANGED <<notified, sleeps, scanVars, fetchVars, flowVars, device_type, unload_ret>>

(***************************************************************************)
(* Reconciliation: _periodic_scan                                          *)
(***************************************************************************)
\* what a probed host answers
ProbedHttp ==
    { HttpResponse(200, PyDict(InfoPlain)), HttpResponse(200, PyDict(InfoNoHashRate)),
      HttpRaise("TimeoutError"), HttpRaise("ClientError") }

\* asyncio.Semaphore(value) raises ValueError for a negative value
SemaphoreRaises(value) == value < 0

\* discover(): the list returned when host i's request ends in outcomes[i]
discover(sn, outcomes) ==
    IF SubnetMalformed(sn) THEN <<>>
    ELSE StrFilter([i \in 1..Len(Hosts(sn)) |-> _probe_ip(Hosts(sn)[i], outcomes[i])])

\* set(found_miners)
FoundSet(found) == {found[i].v : i \in 1..Len(found)}

\* variant: every found address counts as new
NewMiners_All(found_set, active) == found_set
\* new_miners = found_set - self.active_miners
NewMiners(found_set, active) == found_set \ active
\* variant: configured addresses are not exempt
LostMiners_NoConfigured(found_set, active, configured) == active \ found_set
\* variant: every address absent from the scan is reported, active or not
LostMiners_AllAbsent(found_set, active, configured) == (Addrs \ found_set) \ configured
\* variant: an empty scan result removes nothing
LostMiners_SkipEmptyScan(found_set, active, configured) ==
    IF found_set = {} THEN {} ELSE (active \ found_set) \ configured
\* lost_miners = self.active_miners - found_set - self.configured_miners
LostMiners(found_set, active, configured) == (active \ found_set) \ configured

Fired(kind, ips) == {[kind |-> kind, miner_ip |-> ip] : ip \in ips}

\* history: the reconciliation cycle before the one that is running or has
\* just run, with the events it fired
PrevCycle ==
    IF last_scan.status = "scanning" THEN last_scan.prev
    ELSE [status |-> last_scan.status, A |-> last_scan.A, S |-> last_scan.S,
          events |-> events]

\* the body of the loop after discover_miners has returned found_set
Reconcile(found_set, status, transport) ==
    LET new_miners == NewMiners(found_set, active_miners)
        active1 == active_miners \cup new_miners
        lost_miners == LostMiners(found_set, active1, configured_miners)
    IN  /\ active_miners' = active1 \ lost_miners
        /\ active_order' \in {o \in Perms(active1 \ lost_miners) : KeepsOrder(active_order, o)}
        /\ events' = Fired("miner_discovered", new_miners) \cup Fired("miner_lost", lost_miners)
        /\ last_scan' = [status |-> status, A |-> active_miners, S |-> found_set,
                         transport |-> transport, prev |-> PrevCycle]
        /\ notified' = [x \in Addrs |->
                           IF x \in lost_miners THEN "miner_lost"
                           ELSE IF x \in new_miners THEN "miner_discovered"
                           ELSE notified[x]]

\* variant: the handler leaves the loop
AfterScanError_Break == "done"
\* where the loop goes after "except Exception": the next iteration's sleep
AfterScanError == "sleeping"

\* asyncio.sleep(self.scan_interval): the task is created when the first
\* refresh starts, and a fetch lasts two requests at most, so the first sleep
\* ends during the first polling cycle only if the interval is that short
SleepCanEnd ==
    (scans = 0 /\ polls = 1 /\ poll_pc = "gathering") => scan_interval <= 2 * FetchTimeout

\* the sleep ends and discover_miners is called, up to its first suspension.
\* A scan needs network round trips, so one that starts while the polling
\* cycle is already ready to resume cannot return before the publish: the
\* wake-up is taken after the publish instead.
ScanWakeWithin(limit) ==
    /\ scan_task = "sleeping"
    /\ ~PublishReady
    /\ SleepCanEnd
    /\ scans < limit
    /\ scans' = scans + 1
    /\ IF SemaphoreRaises(concurrency)
       THEN \* BitaxeDiscovery.__init__ raises; except Exception logs it
            /\ scan_task' = AfterScanError
            /\ events' = {}
            /\ last_scan' = [status |-> "raised", A |-> active_miners, S |-> {},
                             transport |-> FALSE, prev |-> PrevCycle]
            /\ UNCHANGED <<active_miners, active_order, notified>>
       ELSE IF SubnetMalformed(subnet)
       THEN \* discover returns [] without suspending
            /\ Reconcile(FoundSet(discover(subnet, <<>>)), "malformed", FALSE)
            /\ scan_task' = "sleeping"
       ELSE \* the probes are created and gathered
            /\ scan_task' = "scanning"
            /\ events' = {}
            /\ last_scan' = [status |-> "scanning", A |-> active_miners, S |-> {},
                             transport |-> FALSE, prev |-> PrevCycle]
            /\ UNCHANGED <<active_miners, active_order, notified>>
    /\ sleeps' = SleepsAfter(scan_task', sleeps)
    /\ UNCHANGED <<entry_pc, configured_miners, subnet, concurrency, scan_interval, miners,
                   poll_pc, tasks, results, polls>>
    /\ UNCHANGED <<scanVars, fetchVars, requests, sensorVars, flowVars, entryVars>>

ScanWake == ScanWakeWithin(MaxScans)

\* a probe needs a semaphore slot to run at all
ScanCanFinish(n) == n >= 1

\* discover_miners returns and the loop body runs to the next sleep
ScanReturn ==
    /\ scan_task = "scanning"
    /\ ScanCanFinish(concurrency)
    /\ \E outcomes \in [1..Len(Hosts(subnet)) -> ProbedHttp] :
          Reconcile(FoundSet(discover(subnet, outcomes)), "scanned",
                    \A i \in 1..Len(outcomes) : TransportFailure(outcomes[i]))
    /\ scan_task' = "sleeping"
    /\ sleeps' = SleepsAfter(scan_task', sleeps)
    /\ UNCHANGED <<entry_pc, configured_miners, subnet, concurrency, scan_interval, miners,
                   poll_pc, tasks, results, polls, scans>>
    /\ UNCHANGED <<scanVars, fetchVars, requests, sensorVars, flowVars, entryVars>>

Next ==
    \/ async_config_entry_first_refresh
    \/ async_setup_entry_raises
    \/ PollStart
    \/ \E i \in 1..Cardinality(Addrs) : FetchReturn(i)
    \/ PollPublish
    \/ ScanWake
    \/ ScanReturn

Spec == Init /\ [][Next]_vars

(***************************************************************************)
(* SpecSensors: the coordinator of one entry whose reconciliation runs,    *)
(* followed for one reconciliation cycle more than Spec follows it, so     *)
(* that an address can be found, lost and found again between the update   *)
(* callbacks of the sensor platform.                                       *)
(***************************************************************************)
InitSensors ==
    /\ Init
    /\ subnet.prefixlen = 32
    /\ concurrency = 1
    /\ scan_interval = 1

NextSensors ==
    \/ async_config_entry_first_refresh
    \/ PollStart
    \/ \E i \in 1..Cardinality(Addrs) : FetchReturn(i)
    \/ PollPublish
    \/ ScanWakeWithin(MaxRescans)
    \/ ScanReturn

SpecSensors == InitSensors /\ [][NextSensors]_vars

(***************************************************************************)
(* SpecScan: one call of discover_miners, probe by probe                   *)
(***************************************************************************)
CoordQuiet ==
    /\ entry_pc = "unused"
    /\ device_type = "" /\ EntryQuiet
    /\ configured_miners = {} /\ scan_interval = 0 /\ active_miners = {}
    /\ active_order = <<>> /\ miners = EmptyDict /\ scan_task = "none"
    /\ poll_pc = "unused" /\ tasks = <<>> /\ results = <<>> /\ events = {}
    /\ last_scan = NoScan /\ polls = 0 /\ scans = 0 /\ notified = NeverNotified /\ sleeps = 0

\* everything a probed host can answer
ScannedHttp ==
    { HttpResponse(200, PyDict(InfoPlain)), HttpResponse(200, PyDict(InfoNoHashRate)),
      HttpResponse(200, PyDict(StatsPlain)), HttpResponse(200, PyList({})),
      HttpResponse(200, PyList({"deviceModel", "hashRate"})), HttpResponse(200, PyInt),
      HttpResponse(200, None) } \cup HttpFailures

InitScan ==
    /\ CoordQuiet
    /\ FetchQuiet
    /\ subnet \in Subnets
    /\ concurrency \in -1..MaxConcurrency
    /\ scan_pc = "called"
    /\ sem = 0
    /\ probe_pc = <<>>
    /\ probe_result = <<>>
    /\ probe_http = <<>>
    /\ found_miners = <<>>
    /\ requests = EmptyBag
    /\ SensorQuiet
    /\ FlowQuiet

\* BitaxeDiscovery.__init__ and discover() up to the gather
DiscoverStart ==
    /\ scan_pc = "called"
    /\ IF SemaphoreRaises(concurrency)
       THEN /\ scan_pc' = "raised"
            /\ UNCHANGED <<sem, probe_pc, probe_result, probe_http, found_miners>>
       ELSE IF SubnetMalformed(subnet)
       THEN /\ scan_pc' = "returned"
            /\ sem' = concurrency
            /\ found_miners' = <<>>
            /\ UNCHANGED <<probe_pc, probe_result, probe_http>>
       ELSE /\ scan_pc' = "gathering"
            /\ sem' = concurrency
            /\ probe_pc' = [i \in 1..Len(Hosts(subnet)) |-> "waiting"]
            /\ probe_result' = [i \in 1..Len(Hosts(subnet)) |-> Pending]
            /\ probe_http' = [i \in 1..Len(Hosts(subnet)) |-> Pending]
            /\ UNCHANGED found_miners
    /\ UNCHANGED <<coordVars, fetchVars, requests, sensorVars, flowVars>>

\* variant: the gate admits every probe
SemFree_Always(value) == TRUE
\* Semaphore.acquire succeeds
SemFree(value) == value > 0

\* _probe_ip enters "async with self.sem"
ProbeAcquire(i) ==
    /\ scan_pc = "gathering"
    /\ i \in 1..Len(probe_pc)
    /\ probe_pc[i] = "waiting"
    /\ SemFree(sem)
    /\ sem' = sem - 1
    /\ probe_pc' = [probe_pc EXCEPT ![i] = "inflight"]
    /\ UNCHANGED <<scan_pc, probe_result, probe_http, found_miners>>
    /\ requests' = requests (+) ProbeRequest(Hosts(subnet)[i])
    /\ UNCHANGED <<coordVars, fetchVars, sensorVars, flowVars>>

\* the request of _probe_ip ends, the function returns and releases its slot
ProbeFinish(i) ==
    /\ scan_pc = "gathering"
    /\ i \in 1..Len(probe_pc)
    /\ probe_pc[i] = "inflight"
    /\ \E o \in ScannedHttp :
          /\ probe_http' = [probe_http EXCEPT ![i] = o]
          /\ probe_result' = [probe_result EXCEPT ![i] = _probe_ip(Hosts(subnet)[i], o)]
    /\ sem' = sem + 1
    /\ probe_pc' = [probe_pc EXCEPT ![i] = "done"]
    /\ UNCHANGED <<scan_pc, found_miners>>
    /\ UNCHANGED <<coordVars, fetchVars, requests, sensorVars, flowVars>>

\* variant: the gather returns with the first finished task
GatherDone_First(pcs) == \E i \in 1..Len(pcs) : pcs[i] = "done"
\* asyncio.gather(*tasks) is done when every task is
GatherDone(pcs) == \A i \in 1..Len(pcs) : pcs[i] = "done"

\* discover() after the gather: filter the results and return
DiscoverReturn ==
    /\ scan_pc = "gathering"
    /\ GatherDone(probe_pc)
    /\ found_miners' = StrFilter(probe_result)
    /\ scan_pc' = "returned"
    /\ UNCHANGED <<sem, probe_pc, probe_result, probe_http>>
    /\ UNCHANGED <<coordVars, fetchVars, requests, sensorVars, flowVars>>

NextScan ==
    \/ DiscoverStart
    \/ \E i \in 1..Cardinality(Addrs) : ProbeAcquire(i)
    \/ \E i \in 1..Cardinality(Addrs) : ProbeFinish(i)
    \/ DiscoverReturn

\* the event loop runs every coroutine that is ready, and every HTTP request
\* ends: with a response, an error or the ClientTimeout of the session
FairScan ==
    /\ WF_vars(DiscoverStart)
    /\ \A i \in 1..Cardinality(Addrs) : WF_vars(ProbeAcquire(i)) /\ WF_vars(ProbeFinish(i))
    /\ WF_vars(DiscoverReturn)

SpecScan == InitScan /\ [][NextScan]_vars /\ FairScan

(***************************************************************************)
(* A scan that can be cancelled: the task awaiting discover_miners is      *)
(* cancelled, the CancelledError is thrown into the gather, which cancels  *)
(* every probe task that is not done.                                      *)
(***************************************************************************)
\* the gather is cancelled: every unfinished probe has a cancellation pending
DiscoverCancel ==
    /\ scan_pc = "gathering"
    /\ ~GatherDone(probe_pc)
    /\ scan_pc' = "cancelling"
    /\ UNCHANGED <<sem, probe_pc, probe_result, probe_http, found_miners>>
    /\ UNCHANGED <<coordVars, fetchVars, requests, sensorVars, flowVars>>

\* variant: a cancelled probe keeps its slot
SemAfterCancel_Leak(value, held) == value
\* the semaphore after CancelledError has left a probe: "async with
\* self.sem" releases the slot of a probe that held one; a probe cancelled
\* in acquire never had one
SemAfterCancel(value, held) == IF held THEN value + 1 ELSE value

\* CancelledError is thrown into one probe: no except clause of _probe_ip
\* catches it, the context managers unwind and the task ends cancelled
ProbeCancelled(i) ==
    /\ scan_pc = "cancelling"
    /\ i \in 1..Len(probe_pc)
    /\ probe_pc[i] \in {"waiting", "inflight"}
    /\ sem' = SemAfterCancel(sem, probe_pc[i] = "inflight")
    /\ probe_pc' = [probe_pc EXCEPT ![i] = "cancelled"]
    /\ UNCHANGED <<scan_pc, probe_result, probe_http, found_miners>>
    /\ UNCHANGED <<coordVars, fetchVars, requests, sensorVars, flowVars>>

\* every probe has ended: the gather, discover and discover_miners raise
\* CancelledError to the cancelled caller
DiscoverCancelled ==
    /\ scan_pc = "cancelling"
    /\ \A i \in 1..Len(probe_pc) : probe_pc[i] \in {"done", "cancelled"}
    /\ scan_pc' = "cancelled"
    /\ UNCHANGED <<sem, probe_pc, probe_result, probe_http, found_miners>>
    /\ UNCHANGED <<coordVars, fetchVars, requests, sensorVars, flowVars>>

NextScanCancel ==
    \/ NextScan
    \/ DiscoverCancel
    \/ \E i \in 1..Cardinality(Addrs) : ProbeCancelled(i)
    \/ DiscoverCancelled

SpecScanCancel == InitScan /\ [][NextScanCancel]_vars

(***************************************************************************)
(* async_unload_entry: the shutdown of the coordinator                     *)
(***************************************************************************)
\* variant: the cancellation request is lost
OnCancel_Ignored(task) == task
\* self._scan_task.cancel(): CancelledError is thrown into the task at the
\* await it is suspended at, the sleep or the scan alike
OnCancel(task) == "cancelled"

\* variant: the entry is removed whatever the platform unload returned
StoredAfterUnload_Always(data, unload_ok) == data \ {EntryId}
\* hass.data[DOMAIN] after "if unload_ok := ...: hass.data[DOMAIN].pop(entry_id)"
StoredAfterUnload(data, unload_ok) == IF unload_ok THEN data \ {EntryId} ELSE data

\* async_unload_entry when async_unload_platforms returned True ->
\* async_shutdown, up to "await self._scan_task"
async_shutdown ==
    /\ entry_pc = "loaded"
    /\ unload_ret = None
    /\ hass_data' = StoredAfterUnload(hass_data, TRUE)
    /\ IF scan_task = "none"
       THEN \* no task was created: nothing to cancel, nothing to await
            /\ entry_pc' = "unloaded"
            /\ unload_ret' = PyVal(TRUE)
            /\ UNCHANGED scan_task
       ELSE /\ scan_task' = OnCancel(scan_task)
            /\ entry_pc' = "unloading"
            /\ UNCHANGED unload_ret
    /\ UNCHANGED <<configured_miners, subnet, concurrency, scan_interval,
                   active_miners, active_order, miners, poll_pc, tasks, results,
                   events, last_scan, polls, scans>>
    /\ UNCHANGED <<notified, sleeps, scanVars, fetchVars, requests, sensorVars, flowVars, device_type>>

\* _periodic_scan: "except asyncio.CancelledError: ... break"
ScanCancelled ==
    /\ scan_task = "cancelled"
    /\ scan_task' = "done"
    /\ UNCHANGED <<entry_pc, configured_miners, subnet, concurrency, scan_interval,
                   active_miners, active_order, miners, poll_pc, tasks, results,
                   events, last_scan, polls, scans>>
    /\ UNCHANGED <<notified, sleeps, scanVars, fetchVars, requests, sensorVars, flowVars, entryVars>>

\* async_shutdown: "await self._scan_task" returns, and so does the unload
ShutdownReturn ==
    /\ entry_pc = "unloading"
    /\ scan_task = "done"
    /\ entry_pc' = "unloaded"
    /\ unload_ret' = PyVal(TRUE)
    /\ UNCHANGED <<configured_miners, subnet, concurrency, scan_interval,
                   active_miners, active_order, miners, scan_task, poll_pc, tasks,
                   results, events, last_scan, polls, scans>>
    /\ UNCHANGED <<notified, sleeps, scanVars, fetchVars, requests, sensorVars, flowVars, device_type, hass_data>>

\* async_unload_entry when async_unload_platforms returned False: the if
\* body is skipped and False is returned
async_unload_entry_fails ==
    /\ entry_pc = "loaded"
    /\ unload_ret = None
    /\ hass_data' = StoredAfterUnload(hass_data, FALSE)
    /\ unload_ret' = PyVal(FALSE)
    /\ UNCHANGED <<entry_pc, configured_miners, subnet, concurrency, scan_interval,
                   active_miners, active_order, miners, scan_task, poll_pc, tasks,
                   results, events, last_scan, polls, scans>>
    /\ UNCHANGED <<notified, sleeps, scanVars, fetchVars, requests, sensorVars, flowVars, device_type>>

(***************************************************************************)
(* SpecEntry: one config entry from async_setup_entry to the return of     *)
(* async_unload_entry, for a Bitaxe entry and for an entry of a device     *)
(* type the integration does not know; the first refresh is the only       *)
(* polling cycle followed.                                                 *)
(***************************************************************************)
DeviceTypes == {DEVICE_TYPE_BITAXE, "antminer"}

InitEntry ==
    /\ entry_pc = "setup"
    /\ device_type \in DeviceTypes
    /\ EntryQuiet
    /\ configured_miners \in {C \in SUBSET Configurable : Cardinality(C) <= MaxConfigured}
    /\ subnet \in {sn \in CoordSubnets : sn.prefixlen = 32}
    /\ concurrency = 1
    /\ scan_interval \in {0, 1}
    /\ active_miners = configured_miners
    /\ active_order \in Perms(configured_miners)
    /\ miners = EmptyDict
    /\ scan_task = "none"
    /\ poll_pc = IF device_type = DEVICE_TYPE_BITAXE THEN "constructed" ELSE "unused"
    /\ tasks = <<>>
    /\ results = <<>>
    /\ events = {}
    /\ last_scan = NoScan
    /\ polls = 0
    /\ scans = 0
    /\ notified = NeverNotified
    /\ sleeps = 0
    /\ ScanQuiet
    /\ FetchQuiet
    /\ requests = EmptyBag
    /\ SensorQuiet
    /\ FlowQuiet

NextEntry ==
    \/ async_config_entry_first_refresh
    \/ async_setup_entry_raises
    \/ async_setup_entry_unknown
    \/ \E i \in 1..Cardinality(Addrs) : FetchReturn(i)
    \/ PollPublish
    \/ ScanWake
    \/ ScanReturn
    \/ async_shutdown
    \/ async_unload_entry_fails
    \/ ScanCancelled
    \/ ShutdownReturn

SpecEntry == InitEntry /\ [][NextEntry]_vars

(***************************************************************************)
(* SpecReconcile: the _periodic_scan task alone, cycle after cycle until   *)
(* it is cancelled, under the scheduling of the event loop.  It starts     *)
(* from any active set that earlier cycles can have left: the configured   *)
(* addresses and any hosts of the subnet discovered before.                *)
(***************************************************************************)
InitReconcile ==
    /\ entry_pc = "loaded"
    /\ device_type = DEVICE_TYPE_BITAXE
    /\ hass_data = {EntryId}
    /\ unload_ret = None
    /\ configured_miners \in {C \in SUBSET Configurable : Cardinality(C) <= MaxConfigured}
    /\ subnet \in CoordSubnets
    /\ concurrency \in {-1, 0, 1}
    /\ scan_interval \in ScanIntervals
    /\ scan_task = ScanTaskFor(scan_interval)
    /\ \E D \in SUBSET (IF scan_task = "none" \/ SubnetMalformed(subnet)
                        THEN {} ELSE Range(Hosts(subnet))) :
          active_miners = configured_miners \cup D
    /\ active_order \in Perms(active_miners)
    /\ miners = EmptyDict
    /\ poll_pc = "unused"
    /\ tasks = <<>>
    /\ results = <<>>
    /\ events = {}
    /\ last_scan = NoScan
    /\ polls = 0
    /\ scans = 0
    /\ sleeps = SleepsAfter(scan_task, 0)
    /\ notified = [x \in Addrs |-> IF x \in active_miners \ configured_miners
                                    THEN "miner_discovered" ELSE "none"]
    /\ ScanQuiet
    /\ FetchQuiet
    /\ requests = EmptyBag
    /\ SensorQuiet
    /\ FlowQuiet

NextReconcile ==
    \/ ScanWake
    \/ ScanReturn
    \/ async_shutdown
    \/ ScanCancelled
    \/ ShutdownReturn

\* the event loop runs every callback that is ready: a sleep ends, a
\* cancelled task gets its CancelledError, the awaiter of a finished task
\* resumes
FairReconcile ==
    /\ WF_vars(ScanWake)
    /\ WF_vars(ScanCancelled)
    /\ WF_vars(ShutdownReturn)

SpecReconcile == InitReconcile /\ [][NextReconcile]_vars /\ FairReconcile

(***************************************************************************)
(* SpecFetch: one call of _fetch_miner_data, request by request            *)
(***************************************************************************)
\* everything a polled device can answer to the info request
FetchedInfo ==
    { HttpResponse(200, PyDict(InfoPlain)), HttpResponse(200, PyDict(InfoWithAvailable)),
      HttpResponse(200, PyDict(InfoWithIp)), HttpResponse(200, PyDict(InfoWithStats)),
      HttpResponse(200, PyList({})) } \cup HttpFailures
\* ... and to the stats request
FetchedStats ==
    { HttpResponse(200, PyDict(StatsPlain)), HttpResponse(200, PyDict(EmptyDict)) }
    \cup HttpFailures

InitFetch ==
    /\ CoordQuiet
    /\ subnet \in {[addr |-> 0, prefixlen |-> 30]}
    /\ concurrency = 1
    /\ ScanQuiet
    /\ fetch_pc = "info"
    /\ fetch_ip \in Addrs
    /\ fetch_info = Pending
    /\ fetch_stats = Pending
    /\ fetch_ret = Pending
    /\ requests = EmptyBag
    /\ SensorQuiet
    /\ FlowQuiet

\* info = await self._fetch_api(ip, BITAXE_API_INFO_ENDPOINT)
FetchInfo ==
    /\ fetch_pc = "info"
    /\ fetch_info' \in FetchedInfo
    /\ fetch_pc' = "stats"
    /\ UNCHANGED <<fetch_ip, fetch_stats, fetch_ret>>
    /\ requests' = requests (+) InfoRequest(fetch_ip)
    /\ UNCHANGED <<coordVars, scanVars, sensorVars, flowVars>>

\* stats = await self._fetch_api(ip, BITAXE_API_STATS_ENDPOINT)
FetchStats ==
    /\ fetch_pc = "stats"
    /\ fetch_stats' \in FetchedStats
    /\ fetch_pc' = "combine"
    /\ UNCHANGED <<fetch_ip, fetch_info, fetch_ret>>
    /\ requests' = requests (+) StatsRequest(fetch_ip)
    /\ UNCHANGED <<coordVars, scanVars, sensorVars, flowVars>>

\* the rest of _fetch_miner_data
FetchCombine ==
    /\ fetch_pc = "combine"
    /\ fetch_ret' = _fetch_miner_data(fetch_ip, fetch_info, fetch_stats)
    /\ fetch_pc' = "returned"
    /\ UNCHANGED <<fetch_ip, fetch_info, fetch_stats>>
    /\ UNCHANGED <<coordVars, scanVars, requests, sensorVars, flowVars>>

NextFetch ==
    \/ FetchInfo
    \/ FetchStats
    \/ FetchCombine

SpecFetch == InitFetch /\ [][NextFetch]_vars

(***************************************************************************)
(* The config flow of a Bitaxe entry (config_flow.py): user ->             *)
(* bitaxe_config -> discovery -> bitaxe_discovery_none or                  *)
(* bitaxe_select_miners -> entry.  A timeout is counted in tenths of a     *)
(* second.                                                                 *)
(***************************************************************************)
\* what a user can submit to the configuration form
FlowSubnets == Subnets
FlowConcurrencies == {0, 1, 100, 101}
FlowTimeouts == {4, 5, 100, 101}
FlowScanIntervals == {0 - 1, 0, 3600}
FlowInputs ==
    [subnet : FlowSubnets, concurrency : FlowConcurrencies, timeout : FlowTimeouts,
     scan_interval : FlowScanIntervals]

\* variant: the concurrency has no upper bound
ConcurrencyValid_NoUpper(c) == 1 <= c
\* 1 <= user_input[CONF_CONCURRENCY] <= 100
ConcurrencyValid(c) == 1 <= c /\ c <= 100
\* 0.5 <= user_input[CONF_TIMEOUT] <= 10
TimeoutValid(t) == 5 <= t /\ t <= 100
\* not user_input[CONF_SCAN_INTERVAL] < 0
ScanIntervalValid(s) == ~(s < 0)

\* the errors dict async_step_bitaxe_config collects for an input
ValidationErrors(u) ==
    LET bad == {f \in {"subnet", "concurrency", "timeout", "scan_interval"} :
                  \/ f = "subnet" /\ SubnetMalformed(u.subnet)
                  \/ f = "concurrency" /\ ~ConcurrencyValid(u.concurrency)
                  \/ f = "timeout" /\ ~TimeoutValid(u.timeout)
                  \/ f = "scan_interval" /\ ~ScanIntervalValid(u.scan_interval)}
    IN  [f \in bad |-> "invalid_" \o f]

\* the errors the configuration form is shown with: errors={}
FormErrors(errors) == EmptyDict

\* the flow is created and shows the form of the user step
InitConfig ==
    /\ CoordQuiet
    /\ subnet \in {[addr |-> 0, prefixlen |-> 30]}
    /\ concurrency = 1
    /\ ScanQuiet
    /\ FetchQuiet
    /\ requests = EmptyBag
    /\ SensorQuiet
    /\ flow_step = "user"
    /\ flow_input = None
    /\ flow_errors = EmptyDict
    /\ config_data = EmptyDict
    /\ discovered_miners = <<>>
    /\ flow_entry = None

\* async_step_user with the device type Bitaxe: async_step_bitaxe_config()
\* shows the configuration form
async_step_user ==
    /\ flow_step = "user"
    /\ flow_step' = "bitaxe_config"
    /\ flow_input' = None
    /\ flow_errors' = FormErrors(EmptyDict)
    /\ UNCHANGED <<config_data, discovered_miners, flow_entry>>
    /\ UNCHANGED <<coordVars, scanVars, fetchVars, requests, sensorVars>>

\* self.discovered_miners after discover_miners returned found
DiscoveredList(found) == [i \in 1..Len(found) |-> found[i].v]
\* async_step_bitaxe_discovery after the scan: the step it goes on to
StepAfterDiscovery(found) ==
    IF found = <<>> THEN "bitaxe_discovery_none" ELSE "bitaxe_select_miners"

\* async_step_bitaxe_config with a submitted input; an accepted input is
\* stored and async_step_bitaxe_discovery runs the scan with it
async_step_bitaxe_config(user_input) ==
    /\ flow_step = "bitaxe_config"
    /\ flow_input' = user_input
    /\ LET errors == ValidationErrors(user_input)
       IN  IF DOMAIN errors = {}
           THEN /\ config_data' = user_input
                /\ \E outcomes \in [1..Len(Hosts(user_input.subnet)) -> ProbedHttp] :
                      LET found == DiscoveredList(discover(user_input.subnet, outcomes))
                      IN  /\ discovered_miners' = found
                          /\ flow_step' = StepAfterDiscovery(found)
                /\ flow_errors' = EmptyDict
           ELSE /\ flow_step' = "bitaxe_config"
                /\ flow_errors' = FormErrors(errors)
                /\ UNCHANGED <<config_data, discovered_miners>>
    /\ UNCHANGED flow_entry
    /\ UNCHANGED <<coordVars, scanVars, fetchVars, requests, sensorVars>>

\* async_step_bitaxe_discovery_none with a submitted input: on to the
\* selection, or back to the user step
async_step_bitaxe_discovery_none(continue) ==
    /\ flow_step = "bitaxe_discovery_none"
    /\ flow_step' = IF continue THEN "bitaxe_select_miners" ELSE "user"
    /\ flow_errors' = EmptyDict
    /\ UNCHANGED <<flow_input, config_data, discovered_miners, flow_entry>>
    /\ UNCHANGED <<coordVars, scanVars, fetchVars, requests, sensorVars>>

\* variant: an empty selection is accepted
NoneSelected_Never(selected_miners) == FALSE
\* "if not selected_miners": at least one miner is required
NoneSelected(selected_miners) == selected_miners = {}

\* async_step_bitaxe_select_miners with a submitted selection, which the
\* form's multi_select restricts to the discovered addresses; no entry with
\* the same unique id exists, so the flow is not aborted
async_step_bitaxe_select_miners(selected_miners) ==
    /\ flow_step = "bitaxe_select_miners"
    /\ selected_miners \subseteq Range(discovered_miners)
    /\ IF NoneSelected(selected_miners)
       THEN /\ flow_step' = "bitaxe_select_miners"
            /\ flow_errors' = [base |-> "no_miners_selected"]
            /\ UNCHANGED flow_entry
       ELSE /\ flow_step' = "created"
            /\ flow_errors' = EmptyDict
            /\ flow_entry' = [data |-> config_data, device_type |-> "bitaxe",
                              miners |-> selected_miners]
    /\ UNCHANGED <<flow_input, config_data, discovered_miners>>
    /\ UNCHANGED <<coordVars, scanVars, fetchVars, requests, sensorVars>>

NextConfig ==
    \/ async_step_user
    \/ \E user_input \in FlowInputs : async_step_bitaxe_config(user_input)
    \/ \E continue \in BOOLEAN : async_step_bitaxe_discovery_none(continue)
    \/ \E selected_miners \in SUBSET Addrs : async_step_bitaxe_select_miners(selected_miners)

SpecConfig == InitConfig /\ [][NextConfig]_vars

(***************************************************************************)
(* Properties                                                              *)
(***************************************************************************)
Discovered(evs) == {e.miner_ip : e \in {x \in evs : x.kind = "miner_discovered"}}
Lost(evs) == {e.miner_ip : e \in {x \in evs : x.kind = "miner_lost"}}
\* a reconciliation cycle has run to its end with a scan result
CycleRan == last_scan.status \in {"scanned", "malformed"}

\* C1: in every reachable state, whatever polling and reconciliation cycles
\* have interleaved and whatever the scans returned, every configured
\* address is in active_miners.
C1_ActiveSupersetConfigured == configured_miners \subseteq active_miners

\* C1 witness: two reconciliation cycles have run, the latest scan returned
\* other addresses and missed a configured one, which is still active.
C1_Witness ==
    /\ scans = 2
    /\ last_scan.status = "scanned"
    /\ last_scan.S # {}
    /\ \E c \in configured_miners : c \notin last_scan.S /\ c \in active_miners

\* C2 (as claimed): the publish of a polling cycle writes exactly the
\* addresses snapshotted at its start, each with the result of its own
\* fetch, and leaves every other entry alone; a cycle fetches exactly the
\* addresses active at its start.
C2_PublishWritesSnapshot ==
    [][ /\ (poll_pc = "gathering" /\ poll_pc' = "idle") =>
              /\ \A i \in 1..Len(tasks) :
                    /\ tasks[i] \in DOMAIN miners'
                    /\ miners'[tasks[i]] = DeviceState(results[i])
              /\ \A k \in DOMAIN miners' \ Range(tasks) :
                    k \in DOMAIN miners /\ miners'[k] = miners[k]
        /\ (poll_pc # "gathering" /\ poll_pc' = "gathering") =>
              Range(tasks') = active_miners
      ]_vars

\* C3: a reconciliation cycle that found S, starting from active set A with
\* configured set C, fires discovered for exactly S - A, lost for exactly
\* A - S - C, and leaves active_miners = (A + S) - (A - S - C).
C3_ReconcileDiff ==
    CycleRan =>
        LET A == last_scan.A
            S == last_scan.S
            C == configured_miners
        IN  /\ Discovered(events) = S \ A
            /\ Lost(events) = (A \ S) \ C
            /\ Cardinality(events) = Cardinality(S \ A) + Cardinality((A \ S) \ C)
            /\ active_miners = (A \cup S) \ ((A \ S) \ C)

\* C3 witness: the spec's scenario B, A = {a, b}, C = {a}, S = {c}.
C3_Witness ==
    /\ last_scan.status = "scanned"
    /\ configured_miners = {AddrStr(0)}
    /\ last_scan.A = {AddrStr(0), AddrStr(1)}
    /\ last_scan.S = {AddrStr(2)}
    /\ events = {[kind |-> "miner_lost", miner_ip |-> AddrStr(1)],
                 [kind |-> "miner_discovered", miner_ip |-> AddrStr(2)]}
    /\ active_miners = {AddrStr(0), AddrStr(2)}

\* a reconciliation cycle whose scan failed as a whole: discover_miners
\* raised, or the subnet did not parse
ScanFailed == last_scan.status \in {"raised", "malformed"}

\* C4: a cycle whose scan fails entirely leaves active_miners as it was,
\* fires no event, and the task is back in its sleep.
C4_FailedScanSkipsCycle ==
    ScanFailed =>
        /\ active_miners = last_scan.A
        /\ events = {}
        /\ scan_task = "sleeping"

\* C4 witness: a cycle on a malformed subnet has run with a non-empty
\* active set.
C4_Witness ==
    /\ last_scan.status = "malformed"
    /\ SubnetMalformed(subnet)
    /\ active_miners # {}

\* C4 second witness: a cycle in which discover_miners raised.
C4_WitnessRaised == last_scan.status = "raised" /\ active_miners # {}

\* a reconciliation cycle in which every probe failed at transport level
ScanUnreachable == last_scan.status = "scanned" /\ last_scan.transport

\* C5 (as claimed): when every probe of a scan fails at transport level, no
\* previously active address is removed and no lost event is fired.
C5_UnreachableKeepsDiscovered ==
    ScanUnreachable => /\ last_scan.A \subseteq active_miners
                       /\ Lost(events) = {}

\* C5 (amended): when every probe of a scan fails at transport level the
\* scan returns an empty list and the cycle runs as for any empty scan: it
\* removes every non-configured address with one lost event each, keeps the
\* configured ones, fires no discovered event, and the task sleeps again.
C5_UnreachableIsEmptyScan ==
    ScanUnreachable =>
        /\ last_scan.S = {}
        /\ active_miners = last_scan.A \cap configured_miners
        /\ Lost(events) = last_scan.A \ configured_miners
        /\ Discovered(events) = {}
        /\ scan_task = "sleeping"

\* C5 witness: an unreachable scan ran while a discovered address was
\* active.
C5_Witness == ScanUnreachable /\ last_scan.A \ configured_miners # {}

\* the probes that hold a semaphore slot
InFlight == {i \in 1..Len(probe_pc) : probe_pc[i] = "inflight"}
Waiting == {i \in 1..Len(probe_pc) : probe_pc[i] = "waiting"}

\* C6: during a scan with concurrency N never more than N probes are past
\* the semaphore, and while N are, no waiting probe can enter.
C6_AtMostNInFlight ==
    scan_pc = "gathering" =>
        /\ Cardinality(InFlight) <= concurrency
        /\ Cardinality(InFlight) = concurrency =>
              \A i \in Waiting : ~ENABLED ProbeAcquire(i)

\* C6 witness: the gate is full and a probe is waiting at it.
C6_Witness ==
    /\ scan_pc = "gathering"
    /\ concurrency >= 1
    /\ Cardinality(InFlight) = concurrency
    /\ Waiting # {}

\* the host's answer passes the probe's check: 200 and a decoded body that
\* has both names, as keys of an object or as elements of an array
Matched(o) ==
    /\ o.exc = ""
    /\ o.status = 200
    /\ \/ o.body.t = "dict" /\ {"deviceModel", "hashRate"} \subseteq DOMAIN o.body.v
       \/ o.body.t = "list" /\ {"deviceModel", "hashRate"} \subseteq o.body.v

C8_PerDeviceIsolation ==
    [][ ( /\ poll_pc = "gathering" /\ poll_pc' = "idle"
          /\ \E i \in 1..Len(results) : results[i].t = "dict"
          /\ \E i \in 1..Len(results) : results[i].t # "dict" )
        => \A i \in 1..Len(tasks) :
              /\ tasks[i] \in DOMAIN miners'
              /\ IF results[i].t = "dict"
                 THEN miners'[tasks[i]] = results[i].v
                 ELSE /\ miners'[tasks[i]].available = FALSE
                      /\ "error" \in DOMAIN miners'[tasks[i]]
      ]_vars

\* the info request returned a JSON object
InfoSucceeded(o) == o.exc = "" /\ o.status = 200 /\ o.body.t = "dict"
\* the request failed: timeout, transport error, non-200, bad JSON
RequestFailed(o) == o.exc # "" \/ o.status # 200 \/ o.body = InvalidJson

\* C9 (as claimed): a fetch whose info request succeeds and whose stats
\* request fails returns a dict with available = True, every info field
\* and no stats key.
C9_InfoOnlyState ==
    (fetch_pc = "returned" /\ InfoSucceeded(fetch_info) /\ RequestFailed(fetch_stats)) =>
        /\ fetch_ret.t = "dict"
        /\ fetch_ret.v.available = TRUE
        /\ \A k \in DOMAIN fetch_info.body.v :
              k \in DOMAIN fetch_ret.v /\ fetch_ret.v[k] = fetch_info.body.v[k]
        /\ "stats" \notin DOMAIN fetch_ret.v

\* C10 (as claimed): an address whose fetch returned None, as it does
\* whenever the info request fails, is published by that cycle as
\* available = False with an error.
C10_InfoFailurePublished ==
    [][ (poll_pc = "gathering" /\ poll_pc' = "idle")
        => \A i \in 1..Len(tasks) :
              results[i] = None =>
                 /\ tasks[i] \in DOMAIN miners'
                 /\ miners'[tasks[i]].available = FALSE
                 /\ "error" \in DOMAIN miners'[tasks[i]]
      ]_vars

\* C10, the fetch alone: whenever the info request fails, _fetch_miner_data
\* returns None and the value stored for it is available = False with an
\* error, whatever the stats request ended in.
C10_InfoFailureState ==
    (fetch_pc = "returned" /\ RequestFailed(fetch_info)) =>
        /\ fetch_ret = None
        /\ DeviceState(fetch_ret) = [available |-> FALSE, error |-> "None"]

\* C11 (as claimed): the published map changes only in the one step that ends
\* a polling cycle, and the map that step leaves has an entry written in
\* this cycle for every address the cycle fetched: no reader sees a map in
\* which only some of the cycle's addresses have been updated.
C11_MapChangesAsUnit ==
    [][ miners' # miners =>
           /\ poll_pc = "gathering" /\ poll_pc' = "idle"
           /\ \A i \in 1..Len(tasks) :
                 /\ tasks[i] \in DOMAIN miners'
                 /\ \E j \in 1..Len(results) : miners'[tasks[i]] = DeviceState(results[j])
      ]_vars

\* C11, the step alone: the published map changes in no step other than the
\* single step that ends a polling cycle.
C11_OnlyPublishWrites ==
    [][ miners' # miners => (poll_pc = "gathering" /\ poll_pc' = "idle") ]_vars

\* C12 (as claimed): after the step that ends a polling cycle the key set of
\* the published map is exactly the set of addresses polled in that cycle.
C12_PublishReplacesMap ==
    [][ (poll_pc = "gathering" /\ poll_pc' = "idle") =>
           DOMAIN miners' = Range(tasks) ]_vars

\* C12, without interference: even when active_miners is the same at the
\* publish as at the start of the cycle, entries of earlier cycles stay.
C12_QuietPublishReplacesMap ==
    [][ (poll_pc = "gathering" /\ poll_pc' = "idle" /\ active_order = tasks) =>
           DOMAIN miners' = Range(tasks) ]_vars

\* C13 (as claimed): async_setup_entry stores the coordinator and forwards
\* to the sensor platform only when the first polling cycle has completed,
\* and at that point the published map has an entry for every configured
\* address, whatever the reconciliation task did in the meantime.
C13_SetupAfterFirstPoll ==
    [][ (entry_pc = "setup" /\ entry_pc' = "loaded") =>
           /\ polls' >= 1
           /\ poll_pc' = "idle"
           /\ configured_miners \subseteq DOMAIN miners'
      ]_vars

\* C13, the order alone: the entry is loaded only after a polling cycle has
\* completed.
C13_LoadedAfterFirstCycle ==
    entry_pc = "loaded" => (polls >= 1 /\ (polls = 1 => poll_pc = "idle"))

\* the latest two reconciliation cycles both ran to their end with a scan
\* result
TwoCyclesRan == CycleRan /\ last_scan.prev.status \in {"scanned", "malformed"}

\* C14: when two reconciliation cycles in a row get the same scan result,
\* the second fires no event and leaves active_miners as the first left it,
\* whatever the active set, the configured set and the result.
C14_ReconcileIdempotent ==
    (TwoCyclesRan /\ last_scan.prev.S = last_scan.S) =>
        /\ events = {}
        /\ active_miners = last_scan.A

\* C14 witness: the same non-empty result twice, and the first cycle both
\* added and removed an address.
C14_Witness ==
    /\ TwoCyclesRan
    /\ last_scan.prev.S = last_scan.S
    /\ last_scan.S # {}
    /\ Discovered(last_scan.prev.events) # {}
    /\ Lost(last_scan.prev.events) # {}

\* the non-configured addresses active before the first of the latest two
\* cycles and absent from the results of both
AbsentTwice == ((last_scan.prev.A \ configured_miners) \ last_scan.prev.S) \ last_scan.S

\* C15: a non-configured active address absent from two consecutive scans
\* is removed by the first with one lost event; the second removes nothing
\* and fires nothing for it.
C15_RemovedOnce ==
    TwoCyclesRan =>
        \A x \in AbsentTwice :
            /\ [kind |-> "miner_lost", miner_ip |-> x] \in last_scan.prev.events
            /\ x \notin last_scan.A
            /\ \A e \in events : e.miner_ip # x
            /\ x \notin active_miners

\* C15 witness: two cycles ran, an address was absent from both, and the
\* second cycle did other work.
C15_Witness ==
    /\ TwoCyclesRan
    /\ AbsentTwice # {}
    /\ events # {}

\* the cancellation of the reconciliation task has been requested
CancelRequested == entry_pc \in {"unloading", "unloaded"}

\* C16: async_shutdown interrupts the task in its sleep and in its scan
\* alike and the loop exits; from the cancellation request on no event is
\* fired and active_miners does not change; async_shutdown returns only
\* when the task has finished.
C16_CancelStopsReconciliation ==
    /\ [][ /\ CancelRequested =>
                (active_miners' = active_miners /\ events' = events /\ scans' = scans)
           /\ entry_pc' = "unloaded" => scan_task' \in {"none", "done"}
         ]_vars
    /\ (entry_pc = "unloading") ~> (scan_task = "done")

\* C16 witness: shutdown has returned after cancelling a scan in flight.
C16_Witness ==
    /\ entry_pc = "unloaded"
    /\ scan_task = "done"
    /\ last_scan.status = "scanning"

\* C16 second witness: shutdown has returned after cancelling the sleep
\* that follows a completed cycle.
C16_WitnessSleeping ==
    /\ entry_pc = "unloaded"
    /\ scan_task = "done"
    /\ last_scan.status = "scanned"

\* C17: an exception caught in a reconciliation cycle does not end the
\* loop: the task ends only by cancellation, and after a cycle that raised
\* a further cycle starts unless the task is cancelled first.
C17_ErrorKeepsLoopRunning ==
    /\ [](scan_task = "done" => CancelRequested)
    /\ \A n \in 1..(MaxScans - 1) :
          (last_scan.status = "raised" /\ scans = n)
              ~> (scans > n \/ scan_task \in {"cancelled", "done"})

\* C17 witness: a cycle raised and a further cycle has run after it.
C17_Witness ==
    /\ last_scan.prev.status = "raised"
    /\ scans >= 2
    /\ scan_task = "sleeping"

\* C18: with scan interval 0 no reconciliation task exists: in every state
\* active_miners equals configured_miners, no scan has been run and no
\* discovered or lost event has been fired.
C18_NoReconcileWithoutInterval ==
    scan_interval = 0 =>
        /\ scan_task = "none"
        /\ active_miners = configured_miners
        /\ scans = 0
        /\ last_scan = NoScan
        /\ events = {}

\* C18 witness: with scan interval 0 and a configured miner, two polling
\* cycles have completed.
C18_Witness ==
    /\ scan_interval = 0
    /\ configured_miners # {}
    /\ polls >= 2
    /\ poll_pc = "idle"
    /\ entry_pc = "loaded"

\* the host answered 200 with a JSON object that has both signature fields
HasSignatureFields(o) ==
    /\ o.exc = ""
    /\ o.status = 200
    /\ o.body.t = "dict"
    /\ {"deviceModel", "hashRate"} \subseteq DOMAIN o.body.v

C19_FailedProbeIsNone ==
    \A i \in 1..Len(probe_pc) :
        probe_pc[i] = "done" =>
            /\ probe_result[i] \in {None, PyStr(Hosts(subnet)[i])}
            /\ RequestFailed(probe_http[i]) => probe_result[i] = None

\* C20: discover on a malformed subnet (here a prefix length above 32)
\* returns an empty list, has created no probe and issued no request, and
\* does not raise: a scan raises only in the constructor, on a negative
\* concurrency.
C20_MalformedSubnetEmpty ==
    /\ (subnet.prefixlen > 32 /\ scan_pc \notin {"called", "raised"}) =>
          /\ scan_pc = "returned"
          /\ found_miners = <<>>
          /\ probe_pc = <<>>
          /\ probe_http = <<>>
    /\ scan_pc = "raised" => concurrency < 0

\* C20 witness: discover has returned on the malformed subnet.
C20_Witness ==
    /\ subnet.prefixlen > 32
    /\ scan_pc = "returned"
    /\ concurrency >= 0

\* ---------------------------------------------------------------------
\* C21: the addresses one scan probes

\* the addresses the scan has sent a probe request to
Probed == {r.ip : r \in BagToSet(requests)}
\* the addresses strictly between the network and the broadcast address
Between(sn) == {AddrStr(n) : n \in (NetworkAddress(sn) + 1)..(BroadcastAddress(sn) - 1)}
ScanOver == scan_pc = "returned" /\ ~SubnetMalformed(subnet)

\* C21 (as claimed): a finished scan of a valid subnet has probed exactly the
\* addresses strictly between the network address and the broadcast address,
\* each once, and neither the network address nor the broadcast address.
C21_ProbesUsableHosts ==
    ScanOver =>
        /\ Probed = Between(subnet)
        /\ \A r \in BagToSet(requests) : CopiesIn(r, requests) = 1
        /\ AddrStr(NetworkAddress(subnet)) \notin Probed
        /\ AddrStr(BroadcastAddress(subnet)) \notin Probed

\* C21 (amended): a finished scan of a valid subnet has sent exactly one probe
\* request to each address it enumerates and none to any other: for a prefix
\* of at most 30 the addresses strictly between the network and the broadcast
\* address, for a /31 both addresses of the network, for a /32 its single
\* address; and at no time has an address been probed twice.
C21_ProbesHostsOnce ==
    /\ \A r \in BagToSet(requests) :
          CopiesIn(r, requests) = 1 /\ r.endpoint = "/api/system/info"
    /\ ScanOver =>
          Probed = IF subnet.prefixlen <= 30 THEN Between(subnet)
                   ELSE IF subnet.prefixlen = 31
                   THEN {AddrStr(NetworkAddress(subnet)), AddrStr(BroadcastAddress(subnet))}
                   ELSE {AddrStr(subnet.addr)}

\* C21 witness: a finished scan of a /31 that probed both its addresses.
C21_Witness ==
    /\ scan_pc = "returned"
    /\ subnet.prefixlen = 31
    /\ Cardinality(Probed) = 2

\* C21, the /30 case: a finished scan that probed the two hosts of the /30.
C21_WitnessThirty ==
    /\ scan_pc = "returned"
    /\ subnet.prefixlen = 30
    /\ Probed = {AddrStr(1), AddrStr(2)}

\* C21, the /32 case: a finished scan that probed the single address.
C21_WitnessSingle ==
    /\ scan_pc = "returned"
    /\ subnet.prefixlen = 32
    /\ Probed = {AddrStr(2)}

\* ---------------------------------------------------------------------
\* C22: a scan does not hang

AllProbesReturned == \A i \in 1..Len(probe_pc) : probe_pc[i] = "done"

C22_PositiveGateTerminates ==
    (scan_pc = "called" /\ concurrency >= 1) ~> (scan_pc = "returned" /\ AllProbesReturned)

\* C22: the state a scan with concurrency 0 stays in: every probe waits for
\* a slot of a gate that has none, and no request has been sent.
C22_Hung ==
    /\ scan_pc = "gathering"
    /\ concurrency = 0
    /\ sem = 0
    /\ Waiting = 1..Len(probe_pc)
    /\ Len(probe_pc) > 0
    /\ requests = EmptyBag

\* ---------------------------------------------------------------------
\* C23: reconciliation and the polling cycles after it

\* a step that starts a polling cycle, and one that publishes its results
CycleStarts == poll_pc # "gathering" /\ poll_pc' = "gathering"
CyclePublishes == poll_pc = "gathering" /\ poll_pc' = "idle"
\* the addresses reconciliation has added and not removed
AddedByScan == active_miners \ configured_miners

\* C23 (as claimed): a polling cycle that starts fetches exactly the
\* addresses of ActiveSet, so every address reconciliation added before and
\* no address it removed before; and when the cycle publishes, every added
\* address it fetched that is still in ActiveSet has in the published map
\* the DeviceState of its own fetch.
C23_AddedPolledNextCycle ==
    [][ /\ CycleStarts => Range(tasks') = active_miners
        /\ CyclePublishes =>
              \A i \in 1..Len(tasks) :
                 tasks[i] \in AddedByScan =>
                    /\ tasks[i] \in DOMAIN miners'
                    /\ miners'[tasks[i]] = DeviceState(results[i])
      ]_vars

\* C23, weaker: the published map has at least some entry for every added
\* address the cycle fetched that is still in ActiveSet.
C23_AddedHasEntry ==
    [][ CyclePublishes =>
           \A i \in 1..Len(tasks) : tasks[i] \in AddedByScan => tasks[i] \in DOMAIN miners'
      ]_vars

\* C23, the part that holds: a cycle fetches exactly the addresses that are
\* in ActiveSet when it starts and sends requests to no other address, so an
\* added address is fetched by the next cycle and a removed one by none.
C23_FetchesActiveAtStart ==
    [][ /\ CycleStarts => Range(tasks') = active_miners
        /\ \A r \in BagToSet(requests') : r.ip \in Range(tasks')
      ]_vars

\* C23: a cycle fetches an address that a scan added before it started.
C23_AddedFetched ==
    /\ poll_pc = "gathering"
    /\ \E i \in 1..Len(tasks) :
          /\ tasks[i] \in AddedByScan
          /\ results[i] # Pending
          /\ [ip |-> tasks[i], endpoint |-> "/api/system/info"] \in BagToSet(requests)

\* ---------------------------------------------------------------------
\* C24: who writes ActiveSet and ConfiguredSet

\* a step of the reconciliation task: it wakes up, or its scan returns
ScanTaskStep == scans' # scans \/ (scan_task = "scanning" /\ scan_task' # "scanning")
\* a step of the polling cycle: it starts, one of its fetches returns, or it
\* publishes (with the sensor platform's entity creation and the reads of
\* the entities)
PollStep == poll_pc' # poll_pc \/ results' # results
\* the sensor platform created entities, or entities read the map
SensorStep == created_miners' # created_miners \/ sensor_state' # sensor_state

\* C24: ConfiguredSet is never changed after construction; ActiveSet is
\* changed by steps of the reconciliation task only; a step of the polling
\* cycle (start, device fetch, publish), the start of a scan, the creation
\* of sensor entities and the reads of the sensors leave both unchanged.
C24_OnlyReconcileWritesActive ==
    [][ /\ configured_miners' = configured_miners
        /\ active_miners' # active_miners => ScanTaskStep /\ ~PollStep /\ ~SensorStep
        /\ (PollStep \/ SensorStep \/ last_scan'.status = "scanning")
              => active_miners' = active_miners /\ active_order' = active_order
      ]_vars

\* C24 witness: the sensor platform has created entities for an address that
\* reconciliation added, the entity has read its map entry, and a later
\* polling cycle is fetching while ActiveSet holds a discovered address.
C24_Witness ==
    /\ \E x \in created_miners :
          /\ x \in active_miners \ configured_miners
          /\ sensor_state[x].available
          /\ sensor_state[x].native_value # None
    /\ polls = MaxPolls
    /\ scans >= 1

\* ---------------------------------------------------------------------
\* C25: no retry within a cycle

InfoGet(ip) == [ip |-> ip, endpoint |-> "/api/system/info"]
StatsGet(ip) == [ip |-> ip, endpoint |-> "/api/system/metrics"]

\* C25: within one polling cycle no request is sent twice: every address
\* whose fetch has returned got exactly one info request and at most one
\* stats request, whether the fetch succeeded or failed, an address whose
\* fetch has not returned got none yet, and no other address got any; the
\* log is per cycle, so a failed address is asked again by the next cycle
\* only.
C25_NoRetryWithinCycle ==
    /\ \A r \in BagToSet(requests) :
          /\ CopiesIn(r, requests) = 1
          /\ poll_pc = "gathering" /\ r.ip \in Range(tasks)
    /\ poll_pc = "gathering" =>
          \A i \in 1..Len(tasks) :
             IF results[i] # Pending
             THEN /\ CopiesIn(InfoGet(tasks[i]), requests) = 1
                  /\ CopiesIn(StatsGet(tasks[i]), requests) <= 1
             ELSE /\ CopiesIn(InfoGet(tasks[i]), requests) = 0
                  /\ CopiesIn(StatsGet(tasks[i]), requests) = 0

\* C25 witness: the fetch of an address failed in the first cycle, which
\* published it as unavailable after one info request; the second cycle has
\* asked the address again, once.
C25_Witness ==
    /\ polls = 2
    /\ poll_pc = "gathering"
    /\ \E i \in 1..Len(tasks) :
          /\ tasks[i] \in DOMAIN miners
          /\ miners[tasks[i]].available = FALSE
          /\ results[i] # Pending
          /\ CopiesIn(InfoGet(tasks[i]), requests) = 1

\* C25, the scan: at every moment of a scan each host whose probe has
\* acquired the gate has been sent exactly one probe request and each
\* waiting host none; a finished scan has probed every host exactly once.
C25_ProbedOncePerScan ==
    /\ \A i \in 1..Len(probe_pc) :
          CopiesIn(InfoGet(Hosts(subnet)[i]), requests)
             = IF probe_pc[i] = "waiting" THEN 0 ELSE 1
    /\ \A i, j \in 1..Len(probe_pc) : Hosts(subnet)[i] = Hosts(subnet)[j] => i = j
    /\ ScanOver => \A i \in 1..Len(Hosts(subnet)) : probe_pc[i] = "done"

\* C25, the scan: a finished scan in which a probe failed and no second
\* request was sent to that host.
C25_WitnessScan ==
    /\ scan_pc = "returned"
    /\ \E i \in 1..Len(probe_pc) :
          /\ probe_http[i].exc # ""
          /\ CopiesIn(InfoGet(Hosts(subnet)[i]), requests) = 1

\* ---------------------------------------------------------------------
\* C26: what the configuration step accepts

\* the input meets the four conditions the claim lists (timeouts in tenths)
InputInRange(u) ==
    /\ u.subnet.prefixlen \in 0..32
    /\ 1 <= u.concurrency /\ u.concurrency <= 100
    /\ 5 <= u.timeout /\ u.timeout <= 100
    /\ u.scan_interval >= 0
\* a step that handles a submission of the configuration form
ConfigSubmitted == flow_step = "bitaxe_config" /\ flow_input' # None

\* C26: a submission to the configuration step leaves the form for the
\* discovery only if the subnet parses, 1 <= concurrency <= 100,
\* 0.5 <= timeout <= 10 and scan interval >= 0, and then stores exactly the
\* input; with any of these violated the flow stays on the form and
\* config_data, the discovered addresses and the entry are as before; so a
\* stored configuration and the data of a created entry are always in range.
C26_OnlyValidConfigAdvances ==
    [][ /\ ConfigSubmitted =>
              IF InputInRange(flow_input')
              THEN /\ flow_step' \in {"bitaxe_discovery_none", "bitaxe_select_miners"}
                   /\ config_data' = flow_input'
              ELSE /\ flow_step' = "bitaxe_config"
                   /\ config_data' = config_data
                   /\ discovered_miners' = discovered_miners
                   /\ flow_entry' = flow_entry
        /\ config_data' # EmptyDict => InputInRange(config_data')
        /\ flow_entry' # None => InputInRange(flow_entry'.data)
      ]_vars

\* C26 witness: an input whose only fault is a concurrency of 101 has been
\* rejected: the form is shown again and nothing is stored.
C26_Witness ==
    /\ flow_step = "bitaxe_config"
    /\ flow_input # None
    /\ flow_input.concurrency = 101
    /\ flow_input.subnet.prefixlen = 30
    /\ flow_input.timeout = 5
    /\ flow_input.scan_interval = 0
    /\ config_data = EmptyDict

\* C26: an input at the upper limits has been accepted and has led to an
\* entry.
C26_WitnessAccepted ==
    /\ flow_step = "created"
    /\ flow_entry # None
    /\ flow_entry.data.concurrency = 100
    /\ flow_entry.data.timeout = 100

\* ---------------------------------------------------------------------
\* C27: configuration errors are surfaced

\* the fields of an input that break a condition of C26
Offending(u) ==
    {f \in {"subnet", "concurrency", "timeout", "scan_interval"} :
        \/ f = "subnet" /\ u.subnet.prefixlen \notin 0..32
        \/ f = "concurrency" /\ ~(1 <= u.concurrency /\ u.concurrency <= 100)
        \/ f = "timeout" /\ ~(5 <= u.timeout /\ u.timeout <= 100)
        \/ f = "scan_interval" /\ u.scan_interval < 0}

\* C27 (as claimed, the form): the configuration form shown after a rejected
\* input carries an error for each offending field of that input.
C27_RejectedFormCarriesErrors ==
    (flow_step = "bitaxe_config" /\ flow_input # None) =>
        \A f \in Offending(flow_input) : f \in DOMAIN flow_errors

\* C27 (as claimed, the setup): the setup of an entry whose subnet is
\* malformed does not complete.
C27_MalformedSubnetFailsSetup ==
    SubnetMalformed(subnet) => entry_pc # "loaded"

\* C27: the form shown after an input with a malformed subnet and a
\* concurrency of 0 has no error at all.
C27_RejectedWithoutError ==
    /\ flow_step = "bitaxe_config"
    /\ flow_input # None
    /\ Offending(flow_input) = {"subnet", "concurrency"}
    /\ flow_errors = EmptyDict

\* ---------------------------------------------------------------------
\* C28: no cross-address mix-up

\* the entry of address a was written by the step
Written(a) == a \notin DOMAIN miners \/ miners'[a] # miners[a]
\* the stored state of a is the result of the fetch issued to a
OwnResult(a) ==
    /\ \E i \in 1..Len(tasks) : tasks[i] = a /\ miners'[a] = DeviceState(results[i])
    /\ "ip" \in DOMAIN miners'[a] => miners'[a].ip = a

\* C28 (as claimed): whatever reconciliation did while the fetches were in
\* flight, every entry a publish writes is the result of the fetch issued to
\* its own address in that cycle, and the ip field of an available state is
\* the address it is stored under.
C28_NoCrossAddressMixup ==
    [][ CyclePublishes => \A a \in DOMAIN miners' : Written(a) => OwnResult(a) ]_vars

\* C28, the part that holds: a publish of a cycle during which the active
\* set kept its iteration order writes every entry from its own fetch.
C28_NoMixupWithoutReconcile ==
    [][ (CyclePublishes /\ tasks = active_order) =>
           \A a \in DOMAIN miners' : Written(a) => OwnResult(a) ]_vars

\* C28: a state stored under one address that names another address.
C28_MixedUp ==
    \E a \in DOMAIN miners : "ip" \in DOMAIN miners[a] /\ miners[a].ip # a

\* ---------------------------------------------------------------------
\* C29: the notifications for one address alternate

\* the step completes a reconciliation cycle, which fired events'
CycleCompletes == last_scan' # last_scan /\ last_scan'.status \in {"scanned", "malformed"}

\* C29: in every reconciliation cycle, a discovered notification is fired
\* only for an address that is not in ActiveSet and whose last notification,
\* if any, was lost; a lost notification is fired only for an address whose
\* last notification was discovered; so per address the notifications
\* alternate and the first one is discovered.
C29_NotificationsAlternate ==
    [][ CycleCompletes =>
           \A e \in events' :
              IF e.kind = "miner_discovered"
              THEN /\ e.miner_ip \notin active_miners
                   /\ notified[e.miner_ip] \in {"none", "miner_lost"}
              ELSE /\ e.kind = "miner_lost"
                   /\ notified[e.miner_ip] = "miner_discovered"
      ]_vars

\* C29 witness: an address was discovered by one cycle and lost by the next.
C29_Witness ==
    /\ \E x \in Addrs :
          /\ [kind |-> "miner_discovered", miner_ip |-> x] \in last_scan.prev.events
          /\ [kind |-> "miner_lost", miner_ip |-> x] \in events
          /\ notified[x] = "miner_lost"

\* ---------------------------------------------------------------------
\* C30: no notification for a configured address

\* C30: no reconciliation cycle, whatever its scan returned, has fired a
\* discovered or a lost notification for an address of ConfiguredSet: none
\* is among the events of the latest cycle or of the one before, and the
\* history of every configured address has no notification.
C30_NoNotificationForConfigured ==
    \A c \in configured_miners :
       /\ c \notin Discovered(events) \cup Lost(events)
       /\ c \notin Discovered(last_scan.prev.events) \cup Lost(last_scan.prev.events)
       /\ notified[c] = "none"

\* C30 witness: a configured address was in the result of one scan and
\* absent from the next, which fired a notification for another address.
C30_Witness ==
    /\ scans = 2
    /\ last_scan.status = "scanned"
    /\ last_scan.prev.status = "scanned"
    /\ \E c \in configured_miners : c \in last_scan.prev.S /\ c \notin last_scan.S
    /\ events # {}

\* ---------------------------------------------------------------------
\* C31: a failed setup leaves no reconciliation task

\* C31 (as claimed): once the setup of an entry has failed, no
\* reconciliation task is left and no step starts a scan, changes ActiveSet
\* or fires a notification.
C31_FailedSetupLeavesNoTask ==
    [][ entry_pc' = "failed" =>
           /\ scan_task' \in {"none", "done"}
           /\ entry_pc = "failed" =>
                 /\ scans' = scans
                 /\ active_miners' = active_miners
                 /\ notified' = notified
      ]_vars

\* C31, the part that holds: a failed setup stores no coordinator, starts
\* no polling cycle and, with a scan interval of 0, has no task.
C31_FailedSetupWithoutInterval ==
    entry_pc = "failed" =>
        /\ polls = 0 /\ miners = EmptyDict
        /\ scan_interval = 0 => scan_task = "none" /\ scans = 0

\* C31: the task of an entry whose setup failed has scanned, added an
\* address and fired discovered for it.
C31_TaskOutlivesSetup ==
    /\ entry_pc = "failed"
    /\ scans >= 1
    /\ active_miners # configured_miners
    /\ Discovered(events) # {}

\* ---------------------------------------------------------------------
\* C32: the state of a successful fetch

\* the fetch has returned a state, not None
FetchSucceeded == fetch_pc = "returned" /\ fetch_ret.t = "dict"

\* C32 (as claimed): every fetch of address a that returns a state returns
\* one with available = TRUE and ip = a, whatever keys the info payload has.
C32_FetchedStateNamesAddress ==
    FetchSucceeded =>
        /\ fetch_ret.v.available = TRUE
        /\ fetch_ret.v.ip = fetch_ip

\* C32, the part that holds: when the info payload has neither an available
\* nor an ip key, the returned state has available = TRUE and ip = a.
C32_PlainPayloadNamesAddress ==
    (FetchSucceeded /\ DOMAIN fetch_info.body.v \cap {"available", "ip"} = {}) =>
        /\ fetch_ret.v.available = TRUE
        /\ fetch_ret.v.ip = fetch_ip

\* C32: a returned state whose ip is the one the payload carried, not the
\* address that was fetched.
C32_PayloadIpWins ==
    /\ FetchSucceeded
    /\ fetch_info.body.v = InfoWithIp
    /\ fetch_ret.v.ip = InfoWithIp.ip
    /\ fetch_ret.v.ip # fetch_ip

\* ---------------------------------------------------------------------
\* C33: gate slots are conserved

\* the scan has built its gate
GateBuilt == scan_pc \in {"gathering", "cancelling", "returned", "cancelled"}

\* C33: in every state of a scan, cancelled or not, the probes holding a
\* slot and the free slots add up to the concurrency; once the scan has
\* returned or has been cancelled no probe holds a slot and every slot is
\* free.
C33_SlotsConserved ==
    GateBuilt =>
        /\ Cardinality(InFlight) + sem = concurrency
        /\ sem >= 0
        /\ scan_pc \in {"returned", "cancelled"} => InFlight = {} /\ sem = concurrency

\* C33 witness: a cancelled scan of which one probe was cancelled while it
\* held a slot with its request sent, and another while it waited.
C33_Witness ==
    /\ scan_pc = "cancelled"
    /\ sem = concurrency
    /\ \E i, j \in 1..Len(probe_pc) :
          /\ probe_pc[i] = "cancelled" /\ probe_pc[j] = "cancelled"
          /\ InfoGet(Hosts(subnet)[i]) \in BagToSet(requests)
          /\ InfoGet(Hosts(subnet)[j]) \notin BagToSet(requests)

\* C33: a returned scan whose probes ended in a match, a timeout and the
\* other outcomes has every slot free again.
C33_WitnessReturned ==
    /\ scan_pc = "returned"
    /\ concurrency = 1
    /\ sem = 1
    /\ \E i, j \in 1..Len(probe_pc) :
          /\ probe_http[i].exc = "TimeoutError"
          /\ probe_result[j].t = "str"

\* ---------------------------------------------------------------------
\* C34: every scan is preceded by one full sleep

\* the step ends a reconciliation cycle: its scan returned, or it raised
CycleEnds ==
    last_scan' # last_scan /\ last_scan'.status \in {"scanned", "malformed", "raised"}

\* C34: a scan starts only as the end of a sleep the task began after its
\* previous scan had started, the first one after the sleep begun at startup:
\* at every start of a scan the task is in its sleep and has slept exactly
\* once more than it has scanned; a cycle that completes and a cycle that
\* raises both leave the task in a new sleep; so the task never scans
\* without a sleep of its own before.
C34_SleepBeforeEveryScan ==
    [][ /\ scans' # scans =>
              /\ scan_task = "sleeping"
              /\ scans' = scans + 1
              /\ sleeps = scans + 1
        /\ CycleEnds => scan_task' = "sleeping" /\ sleeps' = scans' + 1
        /\ scan_task' = "scanning" => scans' >= 1 /\ sleeps' = scans'
        /\ last_scan'.status # "none" => scans' >= 1
      ]_vars

\* C34 witness: the second scan is running; the first cycle raised or
\* completed and the task slept again before it.
C34_Witness ==
    /\ scan_task = "scanning"
    /\ scans = 2
    /\ sleeps = 2
    /\ last_scan.prev.status = "scanned"

\* C34: the task sleeps again after a cycle that raised.
C34_WitnessAfterError ==
    /\ scan_task = "sleeping"
    /\ last_scan.status = "raised"
    /\ last_scan.prev.status = "raised"
    /\ scans = 2
    /\ sleeps = 3

\* ---------------------------------------------------------------------
\* C35: when a sensor is available

\* the published map has an entry for the address whose flag is not false
EntryNotFalse(ip) ==
    /\ ip \in DOMAIN miners
    /\ "available" \in DOMAIN miners[ip] => miners[ip].available # FALSE

\* C35: what the entities of every created device have read, and what a
\* sensor of any address would read now, is available exactly when the
\* published map has an entry for the address whose available flag is not
\* false, and the value is None whenever the sensor is not available; the
\* map is written by the publish of a polling cycle only, so an available
\* sensor shows a state some polling cycle stored under its address.
C35_AvailableIffEntryNotFalse ==
    /\ DOMAIN sensor_state = created_miners
    /\ \A ip \in created_miners :
          /\ sensor_state[ip].available <=> EntryNotFalse(ip)
          /\ ~sensor_state[ip].available => sensor_state[ip].native_value = None
    /\ \A ip \in Addrs :
          /\ available(ip, miners) <=> EntryNotFalse(ip)
          /\ ~available(ip, miners) => native_value(ip, miners) = None
          /\ available(ip, miners) => polls >= 1

\* C35, the writes: the published map changes in publish steps only.
C35_MapWrittenByPublishOnly ==
    [][ miners' # miners => CyclePublishes ]_vars

\* C35 witness: of two devices with entities one is available with a value
\* and the other, whose fetch failed, is unavailable without a value.
C35_Witness ==
    \E x, y \in created_miners :
       /\ sensor_state[x].available /\ sensor_state[x].native_value # None
       /\ y \in DOMAIN miners /\ miners[y].available = FALSE
       /\ ~sensor_state[y].available /\ sensor_state[y].native_value = None

\* C35: a device with entities that has no entry in the published map is
\* unavailable.
C35_WitnessNoEntry ==
    \E x \in created_miners : x \notin DOMAIN miners /\ ~sensor_state[x].available

\* ---------------------------------------------------------------------
\* C36: one entity set per address

\* the number of entity sets handed to async_add_entities for an address
EntitySets(ip) == CopiesIn(ip, entities)

\* the last reconciliation cycle rediscovered x, which the cycle before it
\* had removed
LostAndFoundAgain(x) ==
    /\ last_scan.status = "scanned"
    /\ x \in last_scan.S \ last_scan.A
    /\ last_scan.prev.status = "scanned"
    /\ x \in last_scan.prev.A \ last_scan.prev.S

\* C36: across the update callbacks of the coordinator no address ever has
\* more than one set of sensor entities, an address has a set exactly when
\* it is in created_miners, a set once created stays, and after every
\* callback each address that was in ActiveSet at the callback has exactly
\* one set; so a lost address that is found again gets no second one.
C36_EntitySetCreatedOnce ==
    [][ /\ \A ip \in Addrs :
             /\ EntitySets(ip)' <= 1
             /\ EntitySets(ip)' >= EntitySets(ip)
             /\ (EntitySets(ip)' = 1) <=> (ip \in created_miners')
        /\ CyclePublishes => \A ip \in active_miners : EntitySets(ip)' = 1
        /\ ~CyclePublishes => entities' = entities ]_vars

\* C36 witness: an address that has its entity set was removed by one
\* reconciliation cycle and found again by the next, and a callback has run
\* since: the address is active with its one set.
C36_Witness ==
    \E x \in created_miners :
       /\ LostAndFoundAgain(x)
       /\ x \in active_miners
       /\ polls = MaxPolls /\ poll_pc = "idle"
       /\ EntitySets(x) = 1

\* C36: the address had its entity set before it was found again, and the
\* callback of the cycle in progress is still to come.
C36_WitnessBeforeCallback ==
    \E x \in created_miners :
       /\ LostAndFoundAgain(x)
       /\ x \in active_miners
       /\ PublishReady

\* ---------------------------------------------------------------------
\* C37: the registry of coordinators

\* hass.data[DOMAIN] has a coordinator for the entry
Stored == EntryId \in hass_data
\* the reconciliation task of the entry is alive and was not asked to stop
TaskRunning == scan_task \in {"sleeping", "scanning"}

\* C37: the registry has a coordinator for the entry exactly while the
\* entry is set up.  Nothing is stored while async_setup_entry runs or
\* after it returned False, for an unknown device type as for a setup
\* error; the coordinator is stored once it returned True; an unload whose
\* platform unload failed returns False and leaves the coordinator stored
\* and its reconciliation task as it was; an unload whose platform unload
\* succeeded has removed it and stopped the task.
C37_RegistryHoldsWhileSetUp ==
    /\ Stored <=> entry_pc = "loaded"
    /\ entry_pc \in {"setup", "failed"} => ~Stored /\ unload_ret = None
    /\ device_type \notin {DEVICE_TYPE_NMMINER, DEVICE_TYPE_BITAXE} =>
          entry_pc \in {"setup", "failed"}
    /\ unload_ret = PyVal(FALSE) =>
          /\ Stored
          /\ scan_interval > 0 => TaskRunning
    /\ entry_pc \in {"unloading", "unloaded"} =>
          /\ ~Stored
          /\ scan_task \in {"none", "cancelled", "done"}
    /\ unload_ret = PyVal(TRUE) => entry_pc = "unloaded" /\ scan_task \in {"none", "done"}

\* C37, the writes: the registry gains the entry only in the step in which
\* async_setup_entry returns True and loses it only in a step of an unload
\* whose platform unload succeeded; a failed unload changes neither the
\* registry nor the task.
C37_RegistryWrites ==
    [][ /\ (Stored' /\ ~Stored) => (entry_pc = "setup" /\ entry_pc' = "loaded")
        /\ (Stored /\ ~Stored') => (entry_pc = "loaded" /\ entry_pc' \in {"unloading", "unloaded"})
        /\ (unload_ret' = PyVal(FALSE) /\ unload_ret = None) =>
              (hass_data' = hass_data /\ scan_task' = scan_task /\ entry_pc' = entry_pc)
      ]_vars

\* C37 witness: the platform unload of a set up entry failed, and its
\* coordinator is stored with the reconciliation task running.
C37_Witness ==
    /\ unload_ret = PyVal(FALSE)
    /\ Stored
    /\ TaskRunning
    /\ scans >= 1

\* C37: an unload that succeeded has removed the coordinator and ended the task.
C37_WitnessUnloaded ==
    /\ unload_ret = PyVal(TRUE)
    /\ ~Stored
    /\ scan_task = "done"

\* C37: setup returned False for an unknown device type, nothing stored.
C37_WitnessUnknownType ==
    /\ device_type = "antminer"
    /\ entry_pc = "failed"
    /\ ~Stored

\* C37: setup returned False after the first refresh raised, nothing stored.
C37_WitnessSetupError ==
    /\ device_type = DEVICE_TYPE_BITAXE
    /\ entry_pc = "failed"
    /\ ~Stored

\* ---------------------------------------------------------------------
\* C38: the miners of a created Bitaxe entry

\* the flow's discovery scan found nothing
ScanFoundNothing == config_data # EmptyDict /\ discovered_miners = <<>>

\* C38: the flow's list of discovered miners is written by the discovery
\* scan only, which runs when a valid configuration is submitted, and holds
\* hosts of the scanned subnet; the step that creates a Bitaxe entry is a
\* selection step whose entry has a non-empty set of miners, all of them in
\* that list, with the configuration the scan was run with.  So while the
\* list is empty no step creates an entry.
C38_EntryMinersFromScan ==
    [][ /\ discovered_miners' # discovered_miners =>
              /\ flow_step = "bitaxe_config"
              /\ config_data' = flow_input'
              /\ InputInRange(flow_input')
        /\ config_data' # EmptyDict =>
              Range(discovered_miners') \subseteq Range(Hosts(config_data'.subnet))
        /\ (flow_entry' # flow_entry \/ (flow_step' = "created" /\ flow_step # "created")) =>
              /\ flow_step = "bitaxe_select_miners" /\ flow_step' = "created"
              /\ flow_entry'.device_type = "bitaxe"
              /\ flow_entry'.miners # {}
              /\ flow_entry'.miners \subseteq Range(discovered_miners)
              /\ discovered_miners' = discovered_miners
              /\ flow_entry'.data = config_data
        /\ (discovered_miners = <<>> /\ discovered_miners' = <<>>) => flow_entry' = None
      ]_vars

\* C38 witness: an entry was created with one of the two miners the scan of
\* the /30 had found.
C38_Witness ==
    /\ flow_step = "created"
    /\ Len(discovered_miners) = 2
    /\ Cardinality(flow_entry.miners) = 1
    /\ flow_entry.miners \subseteq Range(discovered_miners)

\* C38: the scan found nothing, the user continued to the selection and
\* submitted it, and the form is back with no_miners_selected.
C38_WitnessNothingFound ==
    /\ ScanFoundNothing
    /\ flow_step = "bitaxe_select_miners"
    /\ flow_errors = [base |-> "no_miners_selected"]
    /\ flow_entry = None

====
